---- MODULE Spec2Model ----
(***************************************************************************)
(* Time tracking and balance ledger of the HAC web application.            *)
(*                                                                         *)
(* The repository holds two variants of the same application:             *)
(* flask_app.py (SQLAlchemy ORM) and setup.py (sqlite3, raw SQL).  The     *)
(* variable `variant` selects which handlers run; it is fixed by Init.     *)
(*                                                                         *)
(* Instants are whole seconds counted from 00:00 of a Thursday (day 0), so *)
(* that two weekdays and a Saturday lie within a horizon of three days.    *)
(* Strings that the code parses or formats are sequences of one-character  *)
(* strings.  Quotas are kept in tenths of an hour (9.6 h = 96) and all     *)
(* arithmetic is exact integer arithmetic on seconds.                      *)
(***************************************************************************)
EXTENDS Integers, Sequences, FiniteSets, TLC

\* ---------------------------------------------------------------- bounds
\* TimeEntry rows ever inserted (ids are never reused: AUTOINCREMENT).
MaxEntries == 2
\* BalanceAdjustment rows ever inserted.
MaxAdj == 1
\* Calendar days the requests of Spec may name; day 0 is a Thursday.
DayCount == 1
\* Rows of the time_entry table SpecEngine starts from.
EngineEntries == 2
\* Rows of the balance_adjustment table in SpecEngine.
EngineAdj == 1
\* TimeEntry rows ever inserted, and ledger rows, in SpecLedger.
LedgerEntries == 1
LedgerAdj == 2
\* Inventory rows ever inserted in SpecInventory (one is there initially).
MaxItems == 2
\* Inventory rows ever inserted in SpecRoles (the initial one).
RoleItems == 1
\* Pieces of the selected_ids field of an export request.
MaxPieces == 2
\* Length of the texts SpecText hands to the parser.
MaxTextLen == 4
\* Magnitude, in seconds, of the balances SpecText hands to the formatter.
MaxSeconds == 3700
\* Requests that can be in progress at once in SpecRace.
MaxRequests == 2
\* TimeEntry rows, and ledger rows, in SpecRace.
RaceEntries == 2
RaceAdj == 2

VARIABLES
    variant,             \* "flask_app" or "setup": which source file runs
    time_entry,          \* table time_entry: id -> row
    next_entry_id,       \* next autoincrement id of time_entry
    balance_adjustment,  \* table balance_adjustment: sequence of rows, id = index
    now,                 \* last value read from the system clock
    inventory,           \* table inventory: id -> row
    next_item_id,        \* next autoincrement id of inventory
    requests,            \* requests in progress: what each has built so far
    last                 \* the response to the last request

vars ==
    <<variant, time_entry, next_entry_id, balance_adjustment, now, inventory,
      next_item_id, requests, last>>

\* ------------------------------------------------------------ user directory
\* daily_hours is in tenths of an hour: 96 is the source's 9.6, 80 its 8.0.
USERS ==
    (1 :> [username |-> "Admin", daily_hours |-> 0]) @@
    (2 :> [username |-> "Esteban", daily_hours |-> 96]) @@
    (3 :> [username |-> "Hernan", daily_hours |-> 96]) @@
    (4 :> [username |-> "Jervaice", daily_hours |-> 80])

\* What load_user returns for an id that is not in USERS (Python's None).
NoUser == [username |-> "None", daily_hours |-> 0]

load_user(user_id) ==
    IF user_id \in DOMAIN USERS THEN USERS[user_id] ELSE NoUser

\* The role tests of the handlers, on the session's user.
\* current_user.username == 'Admin'
admin_role(c) == load_user(c).username = "Admin"

\* current_user.username in ['Esteban', 'Hernan']
manual_backfill_privilege(c) == load_user(c).username \in {"Esteban", "Hernan"}

\* Faulty variant, for sensitivity: every user of the directory may manage
\* the inventory.
inventory_privilege_everyone(c) == c \in DOMAIN USERS

\* current_user.username in ['Admin', 'Jervaice']
inventory_privilege(c) == load_user(c).username \in {"Admin", "Jervaice"}

\* A request without a session cookie: flask-login's anonymous user.
Anon == 0

\* Who sends requests: a client without a session, the Admin, and Esteban.
\* Hernan has Esteban's quota and privileges; Jervaice differs from Esteban in
\* these handlers only by having no manual-entry privilege, as the Admin.
Clients == {Anon, 1, 2}

\* Who sends clock-in requests in Spec: the Admin account is not used to
\* clock in (its time_tracking page offers no button: it redirects).
Employees == {Anon, 2}

\* ------------------------------------------------------------------ time
Days == 0 .. (DayCount - 1)

\* 08:00 and 17:36 (08:00 plus 9.6 hours), in seconds since midnight.
TimesOfDay == {8 * 3600, 17 * 3600 + 36 * 60}

Instant(day, tod) == day * 86400 + tod

Times == {Instant(d, tod) : d \in Days, tod \in TimesOfDay}

\* datetime.date(): the calendar day an instant falls on.
DateOf(t) == t \div 86400

\* datetime.weekday(): Monday is 0 and Sunday is 6; day 0 is a Thursday.
weekday(t) == (DateOf(t) + 3) % 7

\* ------------------------------------------------- cells of a DATETIME column
\* A DATETIME cell holds an instant, NULL, or (setup.py only, which stores
\* the form text unparsed) a text that datetime.fromisoformat rejects.
Dt(t) == [k |-> "dt", t |-> t]
Null == [k |-> "null", t |-> 0]
Garbage == [k |-> "bad", t |-> 0]

\* ------------------------------------------------------------ text helpers
Digit == {"0", "1", "2", "3", "4", "5", "6", "7", "8", "9"}

\* What str.strip() removes and the pattern's \s matches.
Whitespace == {" ", "\t", "\n"}

DigitVal(ch) ==
    CASE ch = "0" -> 0 [] ch = "1" -> 1 [] ch = "2" -> 2 [] ch = "3" -> 3
      [] ch = "4" -> 4 [] ch = "5" -> 5 [] ch = "6" -> 6 [] ch = "7" -> 7
      [] ch = "8" -> 8 [] ch = "9" -> 9

DigitChar(d) ==
    CASE d = 0 -> "0" [] d = 1 -> "1" [] d = 2 -> "2" [] d = 3 -> "3"
      [] d = 4 -> "4" [] d = 5 -> "5" [] d = 6 -> "6" [] d = 7 -> "7"
      [] d = 8 -> "8" [] d = 9 -> "9"

\* int(): the value of a non-empty run of decimal digits.
RECURSIVE int(_)
int(ds) ==
    IF Len(ds) = 0 THEN 0
    ELSE 10 * int(SubSeq(ds, 1, Len(ds) - 1)) + DigitVal(ds[Len(ds)])

\* The decimal digits of a natural number.
RECURSIVE Decimal(_)
Decimal(n) ==
    IF n < 10 THEN <<DigitChar(n)>>
    ELSE Decimal(n \div 10) \o <<DigitChar(n % 10)>>

\* The format specification :02d applied to a natural number.
Format02d(n) == IF n < 10 THEN <<"0">> \o Decimal(n) ELSE Decimal(n)

abs(n) == IF n < 0 THEN 0 - n ELSE n

\* The first index at or after i whose character is not in cs (Len(s) + 1
\* when there is none): how far a greedy character class advances.
RECURSIVE SkipWhile(_, _, _)
SkipWhile(s, i, cs) ==
    IF i <= Len(s) /\ s[i] \in cs THEN SkipWhile(s, i + 1, cs) ELSE i

\* The last index at or before i whose character is not in cs (0 when none).
RECURSIVE SkipBack(_, _, _)
SkipBack(s, i, cs) ==
    IF i >= 1 /\ s[i] \in cs THEN SkipBack(s, i - 1, cs) ELSE i

\* str.strip()
strip(s) ==
    LET first == SkipWhile(s, 1, Whitespace)
        lastc == SkipBack(s, Len(s), Whitespace)
    IN  IF first > lastc THEN <<>> ELSE SubSeq(s, first, lastc)

\* Faulty variant, for sensitivity: "+" in front of a balance that is not
\* negative (the convention of seconds_to_str in setup.py).
seconds_to_str_plus(seconds) ==
    LET sign == IF seconds < 0 THEN <<"-">> ELSE <<"+">>
        secs == abs(seconds)
    IN  sign \o Format02d(secs \div 3600) \o <<"h", " ">>
             \o Format02d((secs % 3600) \div 60) \o <<"m">>

\* seconds_to_str of flask_app.py, and the same formatting inlined at the
\* end of calculate_balance in setup.py: "-" only for a negative value.
seconds_to_str(seconds) ==
    LET sign == IF seconds < 0 THEN <<"-">> ELSE <<>>
        secs == abs(seconds)
        hours == secs \div 3600
        remainder == secs % 3600
        minutes == remainder \div 60
    IN  sign \o Format02d(hours) \o <<"h", " ">> \o Format02d(minutes) \o <<"m">>

\* Faulty variant, for sensitivity: the sign is applied to the hours only.
parse_balance_string_sign_on_hours(balance_str) ==
    LET s == strip(balance_str)
        hasSign == Len(s) >= 1 /\ s[1] \in {"+", "-"}
        p2 == SkipWhile(s, IF hasSign THEN 2 ELSE 1, Whitespace)
        p3 == SkipWhile(s, p2, Digit)
        p4 == SkipWhile(s, p3 + 1, Digit)
        matched == p3 > p2 /\ p3 <= Len(s) /\ s[p3] = ":" /\ p4 > p3 + 1
        hours == int(SubSeq(s, p2, p3 - 1))
        minutes == int(SubSeq(s, p3 + 1, p4 - 1))
    IN  IF ~matched THEN [ok |-> FALSE, value |-> 0]
        ELSE [ok |-> TRUE,
              value |-> IF hasSign /\ s[1] = "-"
                        THEN (0 - hours * 3600) + minutes * 60
                        ELSE hours * 3600 + minutes * 60]

\* parse_balance_string: re.match of ([+-])?\s*(\d+):(\d+) on the stripped
\* text, anchored at the start only.  ok = FALSE stands for ValueError.
parse_balance_string(balance_str) ==
    LET s == strip(balance_str)
        hasSign == Len(s) >= 1 /\ s[1] \in {"+", "-"}
        p1 == IF hasSign THEN 2 ELSE 1
        p2 == SkipWhile(s, p1, Whitespace)
        p3 == SkipWhile(s, p2, Digit)
        p4 == SkipWhile(s, p3 + 1, Digit)
        matched == /\ p3 > p2
                   /\ p3 <= Len(s) /\ s[p3] = ":"
                   /\ p4 > p3 + 1
        hours == int(SubSeq(s, p2, p3 - 1))
        minutes == int(SubSeq(s, p3 + 1, p4 - 1))
        total_seconds == hours * 3600 + minutes * 60
    IN  IF ~matched THEN [ok |-> FALSE, value |-> 0]
        ELSE [ok |-> TRUE,
              value |-> IF hasSign /\ s[1] = "-" THEN 0 - total_seconds
                        ELSE total_seconds]

\* ------------------------------------------------------------ balance engine
\* Python's sum() over the values of a finite function.
RECURSIVE sum(_)
sum(f) ==
    IF DOMAIN f = {} THEN 0
    ELSE LET x == CHOOSE x \in DOMAIN f : TRUE
         IN  f[x] + sum([y \in DOMAIN f \ {x} |-> f[y]])

\* Faulty variant, for sensitivity: every entry of the user is selected, the
\* open ones included.
completed_entries_open_too(user_id) ==
    {id \in DOMAIN time_entry : time_entry[id].user_id = user_id}

\* The rows calculate_balance selects: the user's entries whose clock_out
\* IS NOT NULL.
completed_entries(user_id) ==
    {id \in DOMAIN time_entry :
        /\ time_entry[id].user_id = user_id
        /\ time_entry[id].clock_out.k # "null"}

\* SELECT SUM(adjustment_seconds) ... WHERE user_id = ?, with "or 0".
total_adjustment_seconds(user_id) ==
    LET rows == {i \in DOMAIN balance_adjustment :
                    balance_adjustment[i].user_id = user_id}
    IN  sum([i \in rows |-> balance_adjustment[i].adjustment_seconds])

\* Faulty variant, for sensitivity: every clock-in date counts, Saturdays and Sundays included.
work_days_every_day(entries) ==
    {DateOf(time_entry[id].clock_in.t) : id \in entries}

\* The set of distinct clock-in dates that fall on Monday to Friday.
work_days(entries) ==
    {DateOf(time_entry[id].clock_in.t) :
        id \in {e \in entries : weekday(time_entry[e].clock_in.t) < 5}}

\* len(work_days) * user.daily_hours * 3600, daily_hours being in tenths.
required_seconds(entries, user) ==
    Cardinality(work_days(entries)) * user.daily_hours * 360

NA == <<"N", "/", "A">>

\* Faulty variant, for sensitivity: only an unknown user is exempt; a quota of 0 is computed with.
exempt_unknown_only(user) == user = NoUser

\* Faulty variant, for sensitivity: no user is exempt, a balance is computed
\* for every id.
exempt_nobody(user) == FALSE

\* if not user or user.daily_hours == 0
exempt(user) == user = NoUser \/ user.daily_hours = 0

\* Faulty variant, for sensitivity: the adjustments are taken off instead of added.
balance_of_minus(total_worked_seconds, required, adjustments) ==
    (total_worked_seconds - required) - adjustments

\* balance_seconds = (total_worked_seconds - required_seconds) + adjustments
balance_of(total_worked_seconds, required, adjustments) ==
    (total_worked_seconds - required) + adjustments

\* balance_seconds = (total_worked_seconds - required_seconds) + adjustments,
\* of the completed entries of user_id and the adjustments stored for it.
balance_seconds(user_id) ==
    LET entries == completed_entries(user_id)
        total_worked_seconds ==
            sum([id \in entries |->
                    time_entry[id].clock_out.t - time_entry[id].clock_in.t])
    IN  balance_of(total_worked_seconds,
                   required_seconds(entries, load_user(user_id)),
                   total_adjustment_seconds(user_id))

\* calculate_balance.  raised = TRUE stands for the ValueError that
\* datetime.fromisoformat raises in setup.py on a stored text that is not
\* a date-time; flask_app.py only ever stores parsed datetimes.
calculate_balance(user_id) ==
    LET user == load_user(user_id)
        entries == completed_entries(user_id)
        unparseable == \E id \in entries :
                          \/ time_entry[id].clock_in.k = "bad"
                          \/ time_entry[id].clock_out.k = "bad"
    IN  IF exempt(user)
        THEN [raised |-> FALSE, str |-> NA, seconds |-> 0]
        ELSE IF unparseable
        THEN [raised |-> TRUE, str |-> <<>>, seconds |-> 0]
        ELSE [raised |-> FALSE, str |-> seconds_to_str(balance_seconds(user_id)),
              seconds |-> balance_seconds(user_id)]

\* ------------------------------------------------------------ form inputs
\* A date-time field of the admin edit form: well-formed text for an
\* instant, text that the parser rejects, the empty string, or no field.
FormDateTimes ==
    {[k |-> "dt", t |-> t] : t \in Times} \cup
    {[k |-> "bad", t |-> 0], [k |-> "empty", t |-> 0], [k |-> "missing", t |-> 0]}

\* The date field and the two time fields of the manual-entry form.
FormDates == {[k |-> "dt", v |-> d] : d \in Days} \cup {[k |-> "bad", v |-> 0]}
FormClockTimes ==
    {[k |-> "dt", v |-> tod] : tod \in TimesOfDay} \cup {[k |-> "bad", v |-> 0]}

\* new_total_balance: request.form.get gives None when the field is absent.
\* The texts are "-01:15", "abc" and "-01:15x".
BalanceInputs ==
    {[present |-> TRUE, text |-> <<"-", "0", "1", ":", "1", "5">>],
     [present |-> TRUE, text |-> <<"a", "b", "c">>],
     [present |-> TRUE, text |-> <<"-", "0", "1", ":", "1", "5", "x">>],
     [present |-> FALSE, text |-> <<>>]}

\* reason: absent, empty, or a text.
ReasonInputs ==
    {[present |-> FALSE, text |-> ""],
     [present |-> TRUE, text |-> ""],
     [present |-> TRUE, text |-> "ajuste"]}

\* Ids a request may name: every id ever issued and one never issued.
EntryIds == 1 .. (MaxEntries + 1)

\* User ids a set-balance request may name: a user of quota 0, a user of
\* positive quota, and an id that is not in USERS.
TargetUserIds == {1, 2, 5}

\* datetime.strptime(f"{date} {time}", '%Y-%m-%d %H:%M') in flask_app.py and
\* datetime.fromisoformat(f"{date}T{time}") in setup.py: ok = FALSE stands
\* for ValueError.
parse_datetime(date, time) ==
    IF date.k = "dt" /\ time.k = "dt"
    THEN [ok |-> TRUE, t |-> Instant(date.v, time.v)]
    ELSE [ok |-> FALSE, t |-> 0]

\* ---------------------------------------------------------------- responses
\* What a request leaves behind: the route, the session's user, the flashed
\* message, the redirect target ("" when a page is rendered, "500" for an
\* uncaught exception), the form fields the handler had read (set-balance
\* only) and the values handed to the template (balance pages only).
Response(route, user, flash, redirect) ==
    [route |-> route, user |-> user, flash |-> flash, redirect |-> redirect,
     form |-> <<>>, body |-> <<>>]

\* A response that leaves both tables and the clock as they were.
Reply(route, c, flash, redirect) ==
    /\ last' = Response(route, c, flash, redirect)
    /\ UNCHANGED <<variant, requests, inventory, next_item_id, time_entry, next_entry_id, balance_adjustment, now>>

\* @login_required without a session: redirect to the login view.
Unauthorized(route, c) ==
    Reply(route, c, "Por favor, inicia sesion para acceder a esta pagina.", "login")

\* An exception no handler catches: the session is rolled back.
InternalServerError(route, c) == Reply(route, c, "", "500")

\* A reply of admin_set_balance, with the two form fields it had read.
ReplyForm(route, c, flash, redirect, form) ==
    /\ last' = [Response(route, c, flash, redirect) EXCEPT !.form = form]
    /\ UNCHANGED <<variant, requests, inventory, next_item_id, time_entry, next_entry_id, balance_adjustment, now>>

open_entries(user_id) ==
    {id \in DOMAIN time_entry :
        /\ time_entry[id].user_id = user_id
        /\ time_entry[id].clock_out.k = "null"}

\* ------------------------------------------------------- inventory rows
\* Inventory(name=..., brand=..., color=..., quantity=..., status=..., location=...)
Inventory(name, d) ==
    [name |-> name, brand |-> d.brand, color |-> d.color,
     quantity |-> d.quantity, status |-> d.status, location |-> d.location]

\* get_initial_inventory_data(): the table after /init-db.
InitialInventory ==
    <<Inventory("Botas de Hule",
                [brand |-> "Varios", color |-> "Negro", quantity |-> "7",
                 status |-> "Bueno", location |-> "Estante Cochera Izquierda"])>>

\* ------------------------------------------------- requests in progress
\* A request between its first statement and its commit holds what it has
\* built: the row it is going to write and the form fields it read.  In
\* every specification but SpecRace a handler runs from its first statement
\* to its last in one step and no request is ever in progress.
Requests == 1 .. MaxRequests

Idle == [k |-> "idle", user |-> Anon, row |-> <<>>, form |-> <<>>]

NoRequests == [r \in Requests |-> Idle]

\* ------------------------------------------------------------------ Init
Init ==
    /\ variant \in {"flask_app", "setup"}
    /\ time_entry = <<>>
    /\ next_entry_id = 1
    /\ balance_adjustment = <<>>
    /\ now = Instant(0, 8 * 3600)
    /\ inventory = InitialInventory
    /\ next_item_id = Len(InitialInventory) + 1
    /\ requests = NoRequests
    /\ last = Response("", Anon, "", "")

\* ---------------------------------------------------------------- handlers
clock_in(c) ==
    IF c = Anon THEN Unauthorized("clock_in", c)
    ELSE \E t \in Times :
        /\ t >= now
        /\ time_entry' = time_entry @@
               (next_entry_id :> [user_id |-> c, clock_in |-> Dt(t), clock_out |-> Null])
        /\ next_entry_id' = next_entry_id + 1
        /\ now' = t
        /\ last' = Response("clock_in", c, "Entrada marcada correctamente.", "time_tracking")
        /\ UNCHANGED <<variant, requests, inventory, next_item_id, balance_adjustment>>

\* Faulty variant, for sensitivity: every open entry of the user is closed.
close_first_and_rest(entries, user_id, t) ==
    {[id \in DOMAIN entries |->
        IF entries[id].user_id = user_id /\ entries[id].clock_out.k = "null"
        THEN [entries[id] EXCEPT !.clock_out = Dt(t)]
        ELSE entries[id]]}

\* flask_app.py: entry = TimeEntry.query.filter_by(user_id=..., clock_out=None)
\* .first(); entry.clock_out = t.  The query has no ORDER BY, so .first() is
\* any open entry of the user: the tables the update can leave.
close_first(entries, user_id, t) ==
    {[entries EXCEPT ![entry].clock_out = Dt(t)] :
        entry \in {id \in DOMAIN entries :
                      /\ entries[id].user_id = user_id
                      /\ entries[id].clock_out.k = "null"}}

\* Faulty variant, for sensitivity: the update has no "WHERE user_id = ?".
close_all_of_everyone(entries, user_id, t) ==
    [id \in DOMAIN entries |->
        IF entries[id].clock_out.k = "null"
        THEN [entries[id] EXCEPT !.clock_out = Dt(t)]
        ELSE entries[id]]

\* Faulty variant, for sensitivity: the update has no "AND clock_out IS NULL".
close_all_and_completed(entries, user_id, t) ==
    [id \in DOMAIN entries |->
        IF entries[id].user_id = user_id
        THEN [entries[id] EXCEPT !.clock_out = Dt(t)]
        ELSE entries[id]]

\* setup.py: UPDATE time_entry SET clock_out = ? WHERE user_id = ? AND
\* clock_out IS NULL.
close_all(entries, user_id, t) ==
    [id \in DOMAIN entries |->
        IF entries[id].user_id = user_id /\ entries[id].clock_out.k = "null"
        THEN [entries[id] EXCEPT !.clock_out = Dt(t)]
        ELSE entries[id]]

\* flask_app.py closes the entry that .first() returns (the query has no
\* ORDER BY, so any open entry of the user); setup.py updates every open
\* entry of the user and always reports success.
clock_out(c) ==
    IF c = Anon THEN Unauthorized("clock_out", c)
    ELSE IF variant = "flask_app"
    THEN IF open_entries(c) = {}
         THEN Reply("clock_out", c, "", "time_tracking")
         ELSE \E t \in Times :
                /\ t >= now
                /\ time_entry' \in close_first(time_entry, c, t)
                /\ now' = t
                /\ last' = Response("clock_out", c, "Salida marcada correctamente.",
                                    "time_tracking")
                /\ UNCHANGED <<variant, requests, inventory, next_item_id, next_entry_id, balance_adjustment>>
    ELSE \E t \in Times :
           /\ t >= now
           /\ time_entry' = close_all(time_entry, c, t)
           /\ now' = t
           /\ last' = Response("clock_out", c, "Salida marcada correctamente.",
                               "time_tracking")
           /\ UNCHANGED <<variant, requests, inventory, next_item_id, next_entry_id, balance_adjustment>>

\* Faulty variant, for sensitivity: only a clock-out strictly before the clock-in is refused.
not_after_strict(clock_out_dt, clock_in_dt) == clock_out_dt < clock_in_dt

\* if clock_out_dt <= clock_in_dt
not_after(clock_out_dt, clock_in_dt) == clock_out_dt <= clock_in_dt

\* Faulty variant, for sensitivity: the row is stored without its clock-out.
manual_entry_open(user_id, clock_in_dt, clock_out_dt) ==
    [user_id |-> user_id, clock_in |-> Dt(clock_in_dt), clock_out |-> Null]

\* TimeEntry(user_id=..., clock_in=clock_in_dt, clock_out=clock_out_dt)
manual_entry(user_id, clock_in_dt, clock_out_dt) ==
    [user_id |-> user_id, clock_in |-> Dt(clock_in_dt), clock_out |-> Dt(clock_out_dt)]

save_forgotten_clock(c) ==
    IF c = Anon THEN Unauthorized("save_forgotten_clock", c)
    ELSE IF ~manual_backfill_privilege(c)
    THEN Reply("save_forgotten_clock", c, "", "time_tracking")
    ELSE \E entry_date \in FormDates,
            clock_in_time \in FormClockTimes, clock_out_time \in FormClockTimes :
         LET clock_in_dt == parse_datetime(entry_date, clock_in_time)
             clock_out_dt == parse_datetime(entry_date, clock_out_time)
         IN  IF ~clock_in_dt.ok \/ ~clock_out_dt.ok
             THEN Reply("save_forgotten_clock", c,
                        "Formato de fecha u hora invalido.", "forgot_clock")
             ELSE IF not_after(clock_out_dt.t, clock_in_dt.t)
             THEN Reply("save_forgotten_clock", c,
                        "La hora de salida debe ser posterior a la de entrada.",
                        "forgot_clock")
             ELSE /\ time_entry' = time_entry @@
                        (next_entry_id :> manual_entry(c, clock_in_dt.t, clock_out_dt.t))
                  /\ next_entry_id' = next_entry_id + 1
                  /\ last' = Response("save_forgotten_clock", c,
                                      "Marcaje manual anadido correctamente.",
                                      "time_tracking")
                  /\ UNCHANGED <<variant, requests, inventory, next_item_id, balance_adjustment, now>>

\* flask_app.py parses both fields with strptime before committing, so a
\* field it cannot parse ends the request with an uncaught exception;
\* setup.py binds the form text into the UPDATE statement unparsed (a
\* missing clock_in violates NOT NULL when the row exists).
admin_edit_entry(c) ==
    IF c = Anon THEN Unauthorized("admin_edit_entry", c)
    ELSE IF ~admin_role(c)
    THEN Reply("admin_edit_entry", c, "", "dashboard")
    ELSE \E entry_id \in EntryIds :
      IF entry_id \notin DOMAIN time_entry
      THEN Reply("admin_edit_entry", c,
                 IF variant = "flask_app" THEN "" ELSE "Marcaje actualizado.",
                 "admin_view")
      ELSE \E f_clock_in \in FormDateTimes :
        IF variant = "flask_app" /\ f_clock_in.k # "dt"
        THEN InternalServerError("admin_edit_entry", c)
        ELSE IF variant = "setup" /\ f_clock_in.k = "missing"
        THEN InternalServerError("admin_edit_entry", c)
        ELSE \E f_clock_out \in FormDateTimes :
          IF variant = "flask_app" /\ f_clock_out.k = "bad"
          THEN InternalServerError("admin_edit_entry", c)
          ELSE /\ time_entry' = [time_entry EXCEPT
                    ![entry_id].clock_in =
                        IF f_clock_in.k = "dt" THEN Dt(f_clock_in.t) ELSE Garbage,
                    ![entry_id].clock_out =
                        CASE f_clock_out.k = "dt" -> Dt(f_clock_out.t)
                          [] f_clock_out.k = "bad" -> Garbage
                          [] OTHER -> Null]
               /\ last' = Response("admin_edit_entry", c, "Marcaje actualizado.",
                                   "admin_view")
               /\ UNCHANGED <<variant, requests, inventory, next_item_id, next_entry_id, balance_adjustment, now>>

\* Faulty variant, for sensitivity: deleting an entry deletes the adjustments
\* of the entry's user with it.
cascade_to_adjustments(ledger, entries, entry_id) ==
    IF entry_id \in DOMAIN entries
    THEN SelectSeq(ledger, LAMBDA r : r.user_id # entries[entry_id].user_id)
    ELSE ledger

\* What deleting a time entry does to the ledger: nothing.  TimeEntry declares
\* no relationship to BalanceAdjustment and the statement names time_entry
\* only (db.session.delete(entry); DELETE FROM time_entry WHERE id = ?).
cascade_of_delete(ledger, entries, entry_id) == ledger

admin_delete_entry(c) ==
    IF c = Anon THEN Unauthorized("admin_delete_entry", c)
    ELSE IF ~admin_role(c)
    THEN Reply("admin_delete_entry", c, "", "dashboard")
    ELSE \E entry_id \in EntryIds :
      IF variant = "flask_app" /\ entry_id \notin DOMAIN time_entry
      THEN Reply("admin_delete_entry", c, "", "admin_view")
      ELSE /\ time_entry' = [id \in DOMAIN time_entry \ {entry_id} |-> time_entry[id]]
           /\ balance_adjustment' =
                  cascade_of_delete(balance_adjustment, time_entry, entry_id)
           /\ last' = Response("admin_delete_entry", c, "Marcaje eliminado.", "admin_view")
           /\ UNCHANGED <<variant, requests, inventory, next_item_id, next_entry_id, now>>

\* Faulty variant, for sensitivity: the balance string is validated before the reason.
set_balance_check_parse_first(reason, new_total_balance_str) ==
    IF ~new_total_balance_str.present THEN "error"
    ELSE IF ~parse_balance_string(new_total_balance_str.text).ok THEN "format"
    ELSE IF ~reason.present \/ reason.text = "" THEN "reason"
    ELSE "ok"

\* The checks of admin_set_balance that precede the computation, in the
\* order the handler makes them: "reason" (not reason), "error" (the
\* AttributeError of None.strip()), "format" (ValueError), or "ok".
set_balance_check(reason, new_total_balance_str) ==
    IF ~reason.present \/ reason.text = "" THEN "reason"
    ELSE IF ~new_total_balance_str.present THEN "error"
    ELSE IF ~parse_balance_string(new_total_balance_str.text).ok THEN "format"
    ELSE "ok"

\* Faulty variant, for sensitivity: the desired total is stored, not the delta.
adjustment_needed_is_total(new_total_seconds, current_balance_seconds) ==
    new_total_seconds

\* adjustment_needed = new_total_seconds - current_balance_seconds
adjustment_needed(new_total_seconds, current_balance_seconds) ==
    new_total_seconds - current_balance_seconds

\* Faulty variant, for sensitivity: the target user is recorded as the author.
new_adj_author_is_target(user_id, adjustment_seconds, reason, admin_user_id) ==
    [user_id |-> user_id, adjustment_seconds |-> adjustment_seconds,
     reason |-> reason, admin_user_id |-> user_id]

\* BalanceAdjustment(user_id=..., adjustment_seconds=..., reason=...,
\* admin_user_id=int(current_user.id), created_at=...): the new row.
new_adj(user_id, adjustment_seconds, reason, admin_user_id) ==
    [user_id |-> user_id, adjustment_seconds |-> adjustment_seconds,
     reason |-> reason, admin_user_id |-> admin_user_id]

\* Faulty variant, for sensitivity: the row takes the place of the earlier
\* adjustments of the same user.
add_adjustment_replacing(ledger, row) ==
    SelectSeq(ledger, LAMBDA r : r.user_id # row.user_id) \o <<row>>

\* db.session.add(new_adj); db.session.commit() / INSERT INTO
\* balance_adjustment: the row is added after the rows there are.
add_adjustment(ledger, row) == Append(ledger, row)

admin_set_balance(c) ==
    IF c = Anon THEN Unauthorized("admin_set_balance", c)
    ELSE IF ~admin_role(c)
    THEN Reply("admin_set_balance", c, "", "dashboard")
    ELSE \E reason \in ReasonInputs, new_total_balance_str \in BalanceInputs :
      LET form == <<reason, new_total_balance_str>>
          check == set_balance_check(reason, new_total_balance_str)
      IN
      IF check = "reason"
      THEN ReplyForm("admin_set_balance", c,
                     "Se requiere un motivo para el ajuste de balance.",
                     "admin_view", form)
      ELSE IF check = "error"
      THEN ReplyForm("admin_set_balance", c, "", "500", form)
      ELSE IF check = "format"
      THEN ReplyForm("admin_set_balance", c,
                     "Formato de balance invalido. Use +HH:MM o -HH:MM.",
                     "admin_view", form)
      ELSE \E user_id \in TargetUserIds :
        LET new_total_seconds == parse_balance_string(new_total_balance_str.text).value
            current == calculate_balance(user_id)
        IN  IF current.raised
            THEN ReplyForm("admin_set_balance", c, "", "500", form)
            ELSE /\ balance_adjustment' = add_adjustment(balance_adjustment,
                       new_adj(user_id,
                               adjustment_needed(new_total_seconds, current.seconds),
                               reason.text, c))
                 /\ last' = [Response("admin_set_balance", c,
                       "Balance para el usuario actualizado correctamente.",
                       "admin_view") EXCEPT !.form = form]
                 /\ UNCHANGED <<variant, requests, inventory, next_item_id, time_entry, next_entry_id, now>>

\* ------------------------------------------------------------ balance pages
\* In setup.py the page converts every stored cell of the listed entries with
\* datetime.fromisoformat before it renders.
rows_unparseable(user_id) ==
    /\ variant = "setup"
    /\ \E id \in DOMAIN time_entry :
          /\ time_entry[id].user_id = user_id
          /\ \/ time_entry[id].clock_in.k = "bad"
             \/ time_entry[id].clock_out.k = "bad"

time_tracking(c) ==
    IF c = Anon THEN Unauthorized("time_tracking", c)
    ELSE IF load_user(c).username = "Admin"
    THEN Reply("time_tracking", c, "", "admin_view")
    ELSE IF rows_unparseable(c) \/ calculate_balance(c).raised
    THEN InternalServerError("time_tracking", c)
    ELSE /\ last' = [Response("time_tracking", c, "", "") EXCEPT
                        !.body = <<calculate_balance(c).str,
                                   calculate_balance(c).seconds>>]
         /\ UNCHANGED <<variant, requests, inventory, next_item_id, time_entry, next_entry_id, balance_adjustment, now>>

admin_view(c) ==
    LET listed == {id \in DOMAIN USERS : USERS[id].username # "Admin"} IN
    IF c = Anon THEN Unauthorized("admin_view", c)
    ELSE IF ~admin_role(c)
    THEN Reply("admin_view", c, "Acceso no autorizado.", "dashboard")
    ELSE IF \E id \in listed : rows_unparseable(id) \/ calculate_balance(id).raised
    THEN InternalServerError("admin_view", c)
    ELSE /\ last' = [Response("admin_view", c, "", "") EXCEPT
                        !.body = [id \in listed |->
                                    <<calculate_balance(id).str,
                                      calculate_balance(id).seconds>>]]
         /\ UNCHANGED <<variant, requests, inventory, next_item_id, time_entry, next_entry_id, balance_adjustment, now>>

\* ---------------------------------------------------------------- inventory
\* Item names, in the order ORDER BY name gives them.
ItemNames == <<"Botas de Hule", "Casco">>

NameRank(name) == CHOOSE i \in 1 .. Len(ItemNames) : ItemNames[i] = name

\* The five columns of an item besides its name, as a form submits them.
ItemDetails ==
    {[brand |-> "Varios", color |-> "Negro", quantity |-> "7",
      status |-> "Bueno", location |-> "Estante Cochera Izquierda"],
     [brand |-> "", color |-> "", quantity |-> "", status |-> "", location |-> ""]}

\* The name field of the add and edit forms: a name, or no field (the
\* column is NOT NULL).
NameInputs ==
    {[present |-> TRUE, text |-> ItemNames[i]] : i \in 1 .. Len(ItemNames)}
        \cup {[present |-> FALSE, text |-> ""]}

\* Ids a request may name: every id ever issued and one never issued.
ItemIds == 1 .. (MaxItems + 1)

\* selected_ids after split(','): a non-empty list of pieces, each the text
\* of an id, the empty text, or a text int() rejects.  The empty field, and
\* the absent one, give the single empty piece.
Pieces ==
    {[k |-> "id", v |-> i] : i \in ItemIds} \cup
    {[k |-> "empty", v |-> 0], [k |-> "bad", v |-> 0]}

SelectionInputs == UNION {[1 .. n -> Pieces] : n \in 1 .. MaxPieces}

\* export_type: 'selected', 'all', or no field.
ExportTypes == {"selected", "all", "missing"}

\* The header row of the spreadsheet (the last header is 'Ubicacion' with an
\* acute accent on the o in the source).
headers == <<"Activo", "Marca", "Color", "Cantidad", "Estado", "Ubicacion">>

\* ws.append([item.name, item.brand, item.color, item.quantity, item.status,
\* item.location])
sheet_row(item) ==
    <<item.name, item.brand, item.color, item.quantity, item.status, item.location>>

\* Faulty variant, for sensitivity: the rows come in the order of their ids.
order_by_id(ids) ==
    {seq \in [1 .. Cardinality(ids) -> ids] :
        \A i, j \in 1 .. Cardinality(ids) : i < j => seq[i] < seq[j]}

\* ORDER BY name: the admissible orders of the rows with these ids; rows of
\* the same name come in any order.
order_by_name(ids) ==
    {seq \in [1 .. Cardinality(ids) -> ids] :
        /\ \A i, j \in 1 .. Cardinality(ids) : i # j => seq[i] # seq[j]
        /\ \A i, j \in 1 .. Cardinality(ids) :
             i < j => NameRank(inventory[seq[i]].name) <= NameRank(inventory[seq[j]].name)}

\* selected_ids = [int(i) for i in selected_ids_str if i]
selected_ids_of(selected_ids_str) ==
    {selected_ids_str[i].v : i \in {j \in 1 .. Len(selected_ids_str) :
                                       selected_ids_str[j].k = "id"}}

\* The reply of a handler to a user without the inventory privilege.
InventoryDenied(route, c, redirect) == Reply(route, c, "", redirect)

inventory_view(c) ==
    IF c = Anon THEN Unauthorized("inventory_view", c)
    ELSE IF ~inventory_privilege(c)
    THEN Reply("inventory_view", c, "Acceso no autorizado.", "dashboard")
    ELSE \E seq \in order_by_name(DOMAIN inventory) :
        /\ last' = [Response("inventory_view", c, "", "") EXCEPT
                       !.body = [i \in 1 .. Len(seq) |-> sheet_row(inventory[seq[i]])]]
        /\ UNCHANGED <<variant, requests, inventory, next_item_id, time_entry,
                       next_entry_id, balance_adjustment, now>>

add_inventory_item(c) ==
    IF c = Anon THEN Unauthorized("add_inventory_item", c)
    ELSE IF ~inventory_privilege(c)
    THEN InventoryDenied("add_inventory_item", c,
                         IF variant = "flask_app" THEN "dashboard" ELSE "403")
    ELSE \E name \in NameInputs :
      IF ~name.present
      THEN InternalServerError("add_inventory_item", c)
      ELSE \E d \in ItemDetails :
        /\ inventory' = inventory @@ (next_item_id :> Inventory(name.text, d))
        /\ next_item_id' = next_item_id + 1
        /\ last' = Response("add_inventory_item", c,
                            "Activo anadido correctamente.", "inventory_view")
        /\ UNCHANGED <<variant, requests, time_entry, next_entry_id, balance_adjustment, now>>

edit_inventory_item(c) ==
    IF c = Anon THEN Unauthorized("edit_inventory_item", c)
    ELSE IF ~inventory_privilege(c)
    THEN InventoryDenied("edit_inventory_item", c,
                         IF variant = "flask_app" THEN "dashboard" ELSE "403")
    ELSE \E item_id \in ItemIds :
      IF item_id \notin DOMAIN inventory
      THEN Reply("edit_inventory_item", c,
                 IF variant = "flask_app" THEN ""
                 ELSE "Activo actualizado correctamente.",
                 "inventory_view")
      ELSE \E name \in NameInputs :
        IF ~name.present
        THEN InternalServerError("edit_inventory_item", c)
        ELSE \E d \in ItemDetails :
          /\ inventory' = [inventory EXCEPT ![item_id] = Inventory(name.text, d)]
          /\ last' = Response("edit_inventory_item", c,
                              "Activo actualizado correctamente.", "inventory_view")
          /\ UNCHANGED <<variant, requests, next_item_id, time_entry, next_entry_id,
                         balance_adjustment, now>>

delete_inventory_item(c) ==
    IF c = Anon THEN Unauthorized("delete_inventory_item", c)
    ELSE IF ~inventory_privilege(c)
    THEN InventoryDenied("delete_inventory_item", c, "dashboard")
    ELSE \E item_id \in ItemIds :
      IF variant = "flask_app" /\ item_id \notin DOMAIN inventory
      THEN Reply("delete_inventory_item", c, "", "inventory_view")
      ELSE /\ inventory' = [id \in DOMAIN inventory \ {item_id} |-> inventory[id]]
           /\ last' = Response("delete_inventory_item", c,
                               "Activo eliminado correctamente.", "inventory_view")
           /\ UNCHANGED <<variant, requests, next_item_id, time_entry, next_entry_id,
                          balance_adjustment, now>>

export_inventory(c) ==
    IF c = Anon THEN Unauthorized("export_inventory", c)
    ELSE IF ~inventory_privilege(c)
    THEN InventoryDenied("export_inventory", c, "dashboard")
    ELSE \E export_type \in ExportTypes :
      IF export_type = "selected"
      THEN \E selected_ids_str \in SelectionInputs :
        LET form == <<export_type, selected_ids_str>> IN
        IF selected_ids_str = <<[k |-> "empty", v |-> 0]>>
        THEN ReplyForm("export_inventory", c,
                       "No se seleccionaron activos para exportar.",
                       "inventory_view", form)
        ELSE IF \E i \in 1 .. Len(selected_ids_str) : selected_ids_str[i].k = "bad"
        THEN ReplyForm("export_inventory", c, "", "500", form)
        ELSE \E seq \in order_by_name(selected_ids_of(selected_ids_str)
                                        \cap DOMAIN inventory) :
          /\ last' = [Response("export_inventory", c, "", "") EXCEPT
                         !.form = form,
                         !.body = <<headers>> \o
                                  [i \in 1 .. Len(seq) |-> sheet_row(inventory[seq[i]])]]
          /\ UNCHANGED <<variant, requests, inventory, next_item_id, time_entry,
                         next_entry_id, balance_adjustment, now>>
      ELSE \E seq \in order_by_name(DOMAIN inventory) :
          /\ last' = [Response("export_inventory", c, "", "") EXCEPT
                         !.form = <<export_type>>,
                         !.body = <<headers>> \o
                                  [i \in 1 .. Len(seq) |-> sheet_row(inventory[seq[i]])]]
          /\ UNCHANGED <<variant, requests, inventory, next_item_id, time_entry,
                         next_entry_id, balance_adjustment, now>>

\* --------------------------------------------------------- letter generation
letter_generator(c) ==
    IF c = Anon THEN Unauthorized("letter_generator", c)
    ELSE IF ~admin_role(c)
    THEN Reply("letter_generator", c, "Acceso no autorizado.", "dashboard")
    ELSE Reply("letter_generator", c, "", "")

\* generate_doc builds the document in memory from the form and sends it; it
\* reads and writes no table.  With a field missing the document library is
\* handed None: the request ends with the file or with an exception.
generate_doc(c) ==
    IF c = Anon THEN Unauthorized("generate_doc", c)
    ELSE IF ~admin_role(c)
    THEN Reply("generate_doc", c, "", "dashboard")
    ELSE \E complete \in BOOLEAN, raised \in BOOLEAN :
        IF ~complete /\ raised
        THEN InternalServerError("generate_doc", c)
        ELSE /\ last' = [Response("generate_doc", c, "", "") EXCEPT
                            !.body = <<"Carta_Satisfaccion">>]
             /\ UNCHANGED <<variant, requests, inventory, next_item_id, time_entry,
                            next_entry_id, balance_adjustment, now>>

\* ------------------------------------------------- session and start pages
\* None of these handlers reads or writes a table.  Which user a later
\* request comes from is the client's choice in every specification: a login
\* that succeeds is what lets a client send requests as that user.
index(c) ==
    IF c # Anon THEN Reply("index", c, "", "dashboard")
    ELSE Reply("index", c, "", "")

\* POST /login: the password matches the named user's hash, or it does not.
login(c) ==
    \E accepted \in BOOLEAN :
        IF accepted
        THEN Reply("login", c, "Bienvenido de nuevo", "dashboard")
        ELSE Reply("login", c, "Usuario o contrasena incorrectos.", "")

logout(c) ==
    IF c = Anon THEN Unauthorized("logout", c)
    ELSE Reply("logout", c, "Has cerrado sesion correctamente.", "login")

dashboard(c) ==
    IF c = Anon THEN Unauthorized("dashboard", c)
    ELSE Reply("dashboard", c, "", "")

forgot_clock(c) ==
    IF c = Anon THEN Unauthorized("forgot_clock", c)
    ELSE IF ~manual_backfill_privilege(c)
    THEN Reply("forgot_clock", c, "No tienes permiso para acceder a esta funcion.",
               "time_tracking")
    ELSE Reply("forgot_clock", c, "", "")

\* ------------------------------------------------------------------ /init-db
\* Faulty variant, for sensitivity: the initial rows are inserted whatever
\* the table holds.
needs_seeding_always == TRUE

\* if Inventory.query.count() == 0
needs_seeding == DOMAIN inventory = {}

\* The route has no @login_required and exists in flask_app.py only (setup.py
\* seeds the table when the program starts, before it serves requests).
\* db.create_all() creates the tables that are missing and changes no row.
init_db_command(c) ==
    IF variant = "setup" THEN Reply("init_db_command", c, "", "404")
    ELSE IF needs_seeding
    THEN /\ inventory' = inventory @@
                [id \in next_item_id .. (next_item_id + Len(InitialInventory) - 1) |->
                    InitialInventory[id - next_item_id + 1]]
         /\ next_item_id' = next_item_id + Len(InitialInventory)
         /\ last' = [Response("init_db_command", c, "", "") EXCEPT
                        !.body = <<"Base de datos inicializada y poblada.">>]
         /\ UNCHANGED <<variant, requests, time_entry, next_entry_id,
                        balance_adjustment, now>>
    ELSE /\ last' = [Response("init_db_command", c, "", "") EXCEPT
                        !.body = <<"La base de datos ya existe y contiene datos.">>]
         /\ UNCHANGED <<variant, requests, inventory, next_item_id, time_entry,
                        next_entry_id, balance_adjustment, now>>

\* ------------------------------------------------------------------ Next
\* The tables stay within the bounds: a request that would insert a row
\* beyond them is not issued.
WithinBounds ==
    /\ next_entry_id' <= MaxEntries + 1
    /\ Len(balance_adjustment') <= MaxAdj

Next ==
    \/ \E c \in Employees : clock_in(c) /\ WithinBounds
    \/ \E c \in Clients : clock_out(c)
    \/ \E c \in Clients : save_forgotten_clock(c) /\ WithinBounds
    \/ \E c \in Clients : admin_edit_entry(c)
    \/ \E c \in Clients : admin_delete_entry(c)
    \/ \E c \in Clients : admin_set_balance(c) /\ WithinBounds

Spec == Init /\ [][Next]_vars

\* ------------------------------------------------------------ SpecEngine
\* The balance engine on its own: the tables start as any table of a
\* bounded family (every one of them is a table the handlers above can
\* produce: rows are inserted by clock-in, the Admin can rewrite both
\* instants of any row), the ledger starts empty,
\* and the requests are the ones that compute a balance.
EngineUsers == {1, 2, 4}

\* Thursday, Friday and Saturday at 08:00.
EngineClockIns == {Instant(d, 8 * 3600) : d \in {0, 1, 2}}

\* Still on the clock, or closed after 8 hours or after 9.6 hours.
EngineCells(t) == {Null, Dt(t + 8 * 3600), Dt(t + 96 * 360)}

EngineRows ==
    UNION {{[user_id |-> u, clock_in |-> Dt(t), clock_out |-> out] :
                u \in EngineUsers, out \in EngineCells(t)} : t \in EngineClockIns}

\* A row whose clock_in text setup.py stored unparsed.
EngineGarbageRows ==
    {[user_id |-> 2, clock_in |-> Garbage, clock_out |-> Dt(Instant(0, 16 * 3600))]}

InitEngine ==
    /\ variant \in {"flask_app", "setup"}
    /\ time_entry \in UNION {[1 .. n -> EngineRows \cup EngineGarbageRows] :
                                n \in 0 .. EngineEntries}
    /\ variant = "flask_app" =>
          \A id \in DOMAIN time_entry : time_entry[id] \notin EngineGarbageRows
    /\ next_entry_id = Len(time_entry) + 1
    /\ balance_adjustment = <<>>
    /\ now = Instant(2, 8 * 3600)
    /\ inventory = InitialInventory
    /\ next_item_id = Len(InitialInventory) + 1
    /\ requests = NoRequests
    /\ last = Response("", Anon, "", "")

NextEngine ==
    \/ \E c \in EngineUsers : time_tracking(c)
    \/ \E c \in EngineUsers : admin_view(c)
    \/ \E c \in EngineUsers :
          admin_set_balance(c) /\ Len(balance_adjustment') <= EngineAdj

SpecEngine == InitEngine /\ [][NextEngine]_vars

\* ------------------------------------------------------------ SpecLedger
\* The same requests as Spec from the same initial state, with the bounds
\* the other way round: few time entries and a longer ledger.
WithinLedgerBounds ==
    /\ next_entry_id' <= LedgerEntries + 1
    /\ Len(balance_adjustment') <= LedgerAdj

NextLedger ==
    \/ \E c \in Employees : clock_in(c) /\ WithinLedgerBounds
    \/ \E c \in Clients : clock_out(c)
    \/ \E c \in Clients : save_forgotten_clock(c) /\ WithinLedgerBounds
    \/ \E c \in Clients : admin_edit_entry(c)
    \/ \E c \in Clients : admin_delete_entry(c)
    \/ \E c \in Clients : admin_set_balance(c) /\ WithinLedgerBounds

SpecLedger == Init /\ [][NextLedger]_vars

\* ------------------------------------------------------------- SpecRoles
\* The handlers behind a role test, called by the Admin, by Esteban (manual
\* entries, no inventory), by Jervaice (inventory, no administration) and by
\* a client without a session, from the state after construction.
RoleClients == {Anon, 1, 2, 4}

WithinRoleBounds ==
    /\ next_entry_id' <= LedgerEntries + 1
    /\ Len(balance_adjustment') <= MaxAdj
    /\ next_item_id' <= RoleItems + 1

NextRoles ==
    \/ \E c \in RoleClients : save_forgotten_clock(c) /\ WithinRoleBounds
    \/ \E c \in RoleClients : admin_edit_entry(c)
    \/ \E c \in RoleClients : admin_delete_entry(c)
    \/ \E c \in RoleClients : admin_set_balance(c) /\ WithinRoleBounds
    \/ \E c \in RoleClients : letter_generator(c)
    \/ \E c \in RoleClients : generate_doc(c)
    \/ \E c \in RoleClients : add_inventory_item(c) /\ WithinRoleBounds
    \/ \E c \in RoleClients : edit_inventory_item(c)
    \/ \E c \in RoleClients : delete_inventory_item(c)
    \/ \E c \in RoleClients : export_inventory(c)

SpecRoles == Init /\ [][NextRoles]_vars

\* --------------------------------------------------------- SpecInventory
\* The inventory handlers on their own, called by Jervaice, by Esteban and
\* by a client without a session.
InventoryClients == {Anon, 2, 4}

NextInventory ==
    \/ \E c \in InventoryClients : inventory_view(c)
    \/ \E c \in InventoryClients :
         add_inventory_item(c) /\ next_item_id' <= MaxItems + 1
    \/ \E c \in InventoryClients : edit_inventory_item(c)
    \/ \E c \in InventoryClients : delete_inventory_item(c)
    \/ \E c \in InventoryClients : export_inventory(c)

SpecInventory == Init /\ [][NextInventory]_vars

\* ------------------------------------------------------------- SpecStaff
\* The requests of the employees, sent by Esteban (who may add manual
\* entries) and by Jervaice (who may not), with the Admin setting balances.
Staff == {2, 4}

NextStaff ==
    \/ \E c \in Staff : clock_in(c) /\ WithinBounds
    \/ \E c \in Staff : clock_out(c)
    \/ \E c \in Staff : save_forgotten_clock(c) /\ WithinBounds
    \/ \E c \in {1} : admin_set_balance(c) /\ WithinBounds

SpecStaff == Init /\ [][NextStaff]_vars

\* ------------------------------------------------------------ SpecPublic
\* Every route of the application requested by a client without a session,
\* while Esteban clocks in, the Admin sets balances and Jervaice deletes
\* inventory items.
WithinPublicBounds ==
    /\ next_entry_id' <= LedgerEntries + 1
    /\ Len(balance_adjustment') <= MaxAdj
    /\ next_item_id' <= MaxItems + 1

NextPublic ==
    \/ index(Anon)
    \/ login(Anon)
    \/ logout(Anon)
    \/ dashboard(Anon)
    \/ time_tracking(Anon)
    \/ clock_in(Anon)
    \/ clock_out(Anon)
    \/ forgot_clock(Anon)
    \/ save_forgotten_clock(Anon)
    \/ admin_view(Anon)
    \/ admin_edit_entry(Anon)
    \/ admin_delete_entry(Anon)
    \/ admin_set_balance(Anon)
    \/ letter_generator(Anon)
    \/ generate_doc(Anon)
    \/ inventory_view(Anon)
    \/ add_inventory_item(Anon)
    \/ edit_inventory_item(Anon)
    \/ delete_inventory_item(Anon)
    \/ export_inventory(Anon)
    \/ init_db_command(Anon) /\ WithinPublicBounds
    \/ clock_in(2) /\ WithinPublicBounds
    \/ admin_set_balance(1) /\ WithinPublicBounds
    \/ delete_inventory_item(4)

SpecPublic == Init /\ [][NextPublic]_vars

\* -------------------------------------------------------------- SpecRace
\* Requests served at the same time.  A handler that writes is taken in two
\* steps: up to the point where it has built the row it is going to write
\* (the clock read, the form checked, the balance computed), and the write
\* with its commit.  Between the two steps of one request the steps of
\* another may run; nothing in either source file (no lock, no transaction
\* around the read and the write, no constraint on the tables) orders them.

\* Faulty variant, for sensitivity: a unique index on (user, null clock-out)
\* admits one open entry per user.
insert_allowed_one_open(row) == open_entries(row.user_id) = {}

\* The constraints of the time_entry table on an inserted row: the primary
\* key and NOT NULL only, which every row the handlers build satisfies.
insert_allowed(row) == TRUE

\* Faulty variant, for sensitivity: the delta is computed again from the
\* balance at the time of the write.
committed_adjustment_fresh(req) ==
    [req.row EXCEPT !.adjustment_seconds =
        adjustment_needed(parse_balance_string(req.form[2].text).value,
                          calculate_balance(req.row.user_id).seconds)]

\* The row the write inserts is the one built from the balance read before.
committed_adjustment(req) == req.row

\* Users whose balance the racing requests set: Esteban and Jervaice.
RaceTargets == {2, 4}

\* new_total_balance in SpecRace: "-01:15" and "+02:30", and no field.
RaceBalanceInputs ==
    {[present |-> TRUE, text |-> <<"-", "0", "1", ":", "1", "5">>],
     [present |-> TRUE, text |-> <<"+", "0", "2", ":", "3", "0">>],
     [present |-> FALSE, text |-> <<>>]}

\* How many requests in progress are going to write a row of this kind.
Pending(kind) == Cardinality({r \in Requests : requests[r].k = kind})

\* clock_in up to the row it is going to insert: the session is checked and
\* the clock is read.
clock_in_begin(r, c) ==
    /\ requests[r].k = "idle"
    /\ IF c = Anon THEN Unauthorized("clock_in", c)
       ELSE \E t \in Times :
            /\ t >= now
            /\ requests' = [requests EXCEPT ![r] =
                   [k |-> "clock_in", user |-> c,
                    row |-> [user_id |-> c, clock_in |-> Dt(t), clock_out |-> Null],
                    form |-> <<>>]]
            /\ now' = t
            /\ UNCHANGED <<variant, inventory, next_item_id, time_entry,
                           next_entry_id, balance_adjustment, last>>

\* clock_in from the insert to the response.
clock_in_commit(r) ==
    /\ requests[r].k = "clock_in"
    /\ requests' = [requests EXCEPT ![r] = Idle]
    /\ IF insert_allowed(requests[r].row)
       THEN /\ time_entry' = time_entry @@ (next_entry_id :> requests[r].row)
            /\ next_entry_id' = next_entry_id + 1
            /\ last' = Response("clock_in", requests[r].user,
                                "Entrada marcada correctamente.", "time_tracking")
       ELSE /\ last' = Response("clock_in", requests[r].user, "", "500")
            /\ UNCHANGED <<time_entry, next_entry_id>>
    /\ UNCHANGED <<variant, inventory, next_item_id, balance_adjustment, now>>

\* admin_set_balance up to the row it is going to insert: the role and the
\* form are checked, the current balance is computed and the delta with it.
set_balance_begin(r, c) ==
    /\ requests[r].k = "idle"
    /\ IF c = Anon THEN Unauthorized("admin_set_balance", c)
       ELSE IF ~admin_role(c)
       THEN Reply("admin_set_balance", c, "", "dashboard")
       ELSE \E reason \in ReasonInputs, new_total_balance_str \in RaceBalanceInputs :
         LET form == <<reason, new_total_balance_str>>
             check == set_balance_check(reason, new_total_balance_str)
         IN
         IF check = "reason"
         THEN ReplyForm("admin_set_balance", c,
                        "Se requiere un motivo para el ajuste de balance.",
                        "admin_view", form)
         ELSE IF check = "error"
         THEN ReplyForm("admin_set_balance", c, "", "500", form)
         ELSE IF check = "format"
         THEN ReplyForm("admin_set_balance", c,
                        "Formato de balance invalido. Use +HH:MM o -HH:MM.",
                        "admin_view", form)
         ELSE \E user_id \in RaceTargets :
           LET new_total_seconds == parse_balance_string(new_total_balance_str.text).value
               current == calculate_balance(user_id)
           IN  IF current.raised
               THEN ReplyForm("admin_set_balance", c, "", "500", form)
               ELSE /\ requests' = [requests EXCEPT ![r] =
                          [k |-> "set_balance", user |-> c,
                           row |-> new_adj(user_id,
                                     adjustment_needed(new_total_seconds, current.seconds),
                                     reason.text, c),
                           form |-> form]]
                    /\ UNCHANGED <<variant, inventory, next_item_id, time_entry,
                                   next_entry_id, balance_adjustment, now, last>>

\* admin_set_balance from the insert to the response.
set_balance_commit(r) ==
    /\ requests[r].k = "set_balance"
    /\ requests' = [requests EXCEPT ![r] = Idle]
    /\ balance_adjustment' =
           add_adjustment(balance_adjustment, committed_adjustment(requests[r]))
    /\ last' = [Response("admin_set_balance", requests[r].user,
                    "Balance para el usuario actualizado correctamente.",
                    "admin_view") EXCEPT !.form = requests[r].form]
    /\ UNCHANGED <<variant, inventory, next_item_id, time_entry, next_entry_id, now>>

\* The tables SpecRace starts from: empty, or holding the entry of a Thursday
\* that Jervaice (8 hours a day) worked from 08:00 to 17:36.
RaceTables ==
    {<<>>,
     <<[user_id |-> 4, clock_in |-> Dt(Instant(0, 8 * 3600)),
        clock_out |-> Dt(Instant(0, 17 * 3600 + 36 * 60))]>>}

InitRace ==
    /\ variant \in {"flask_app", "setup"}
    /\ time_entry \in RaceTables
    /\ next_entry_id = Len(time_entry) + 1
    /\ balance_adjustment = <<>>
    /\ now = IF time_entry = <<>> THEN Instant(0, 8 * 3600)
             ELSE Instant(0, 17 * 3600 + 36 * 60)
    /\ inventory = InitialInventory
    /\ next_item_id = Len(InitialInventory) + 1
    /\ requests = NoRequests
    /\ last = Response("", Anon, "", "")

\* Rows written and rows about to be written stay within the bounds.
WithinRaceBounds ==
    /\ (next_entry_id' - 1) + Pending("clock_in")' <= RaceEntries
    /\ Len(balance_adjustment') + Pending("set_balance")' <= RaceAdj

NextRace ==
    \/ \E r \in Requests, c \in Employees : clock_in_begin(r, c) /\ WithinRaceBounds
    \/ \E r \in Requests : clock_in_commit(r)
    \/ \E r \in Requests, c \in Clients : set_balance_begin(r, c) /\ WithinRaceBounds
    \/ \E r \in Requests : set_balance_commit(r)

SpecRace == InitRace /\ [][NextRace]_vars

\* -------------------------------------------------------------- SpecText
\* The parser and the formatter on their own: a behaviour makes one call of
\* one of them on an input of a bounded family and leaves the argument in
\* last.form and the result in last.body.  The tables stay empty.
TextAlphabet == {"+", "-", "1", "5", ":", " ", "x"}

\* Every text over TextAlphabet of at most MaxTextLen characters.
TextsUpTo(n) == UNION {[1 .. k -> TextAlphabet] : k \in 0 .. n}

\* "+02:30", "-01:15", "2:5", "abc", "-01:15x" and "1:30:45".
ExampleTexts ==
    {<<"+", "0", "2", ":", "3", "0">>, <<"-", "0", "1", ":", "1", "5">>,
     <<"2", ":", "5">>, <<"a", "b", "c">>,
     <<"-", "0", "1", ":", "1", "5", "x">>,
     <<"1", ":", "3", "0", ":", "4", "5">>}

TextInputs == TextsUpTo(MaxTextLen) \cup ExampleTexts

\* Balances handed to the formatter: every whole number of seconds up to
\* MaxSeconds either side of 0, and some of ten hours and more.
SecondsInputs ==
    ((0 - MaxSeconds) .. MaxSeconds) \cup {9000, 0 - 4500, 35999, 36000, 0 - 360059}

InitText ==
    /\ variant \in {"flask_app", "setup"}
    /\ time_entry = <<>>
    /\ next_entry_id = 1
    /\ balance_adjustment = <<>>
    /\ now = Instant(0, 8 * 3600)
    /\ inventory = InitialInventory
    /\ next_item_id = Len(InitialInventory) + 1
    /\ requests = NoRequests
    /\ last = Response("", Anon, "", "")

call_parse_balance_string ==
    \E balance_str \in TextInputs :
        LET r == parse_balance_string(balance_str) IN
        /\ last.route = ""
        /\ last' = [Response("parse_balance_string", Anon, "", "") EXCEPT
                       !.form = <<balance_str>>, !.body = <<r.ok, r.value>>]
        /\ UNCHANGED <<variant, requests, inventory, next_item_id, time_entry, next_entry_id, balance_adjustment, now>>

call_seconds_to_str ==
    \E seconds \in SecondsInputs :
        /\ last.route = ""
        /\ last' = [Response("seconds_to_str", Anon, "", "") EXCEPT
                       !.form = <<seconds>>, !.body = <<seconds_to_str(seconds)>>]
        /\ UNCHANGED <<variant, requests, inventory, next_item_id, time_entry, next_entry_id, balance_adjustment, now>>

NextText == call_parse_balance_string \/ call_seconds_to_str

SpecText == InitText /\ [][NextText]_vars

\* ================================================================== claims
\* Steps are recognised by the response they leave in last'.

\* A set-balance request that appended an adjustment for target.
SetBalanceDone(target) ==
    /\ last'.route = "admin_set_balance"
    /\ last'.flash = "Balance para el usuario actualizado correctamente."
    /\ Len(balance_adjustment') = Len(balance_adjustment) + 1
    /\ balance_adjustment'[Len(balance_adjustment')].user_id = target

\* The desired total of the set-balance request just answered.
DesiredTotal == parse_balance_string(last'.form[2].text).value

\* The same in a state: the desired total of the request last answered.
LastDesiredTotal == parse_balance_string(last.form[2].text).value

\* A manual entry that was stored.
ManualEntryStored ==
    /\ last'.route = "save_forgotten_clock"
    /\ last'.flash = "Marcaje manual anadido correctamente."

\* The user's completed entries hold instants only (no unparsed text).
Parseable(u) ==
    \A id \in completed_entries(u) :
        time_entry[id].clock_in.k = "dt" /\ time_entry[id].clock_out.k = "dt"

\* Worked seconds of u over the ids 1 .. k, one row at a time.
RECURSIVE WorkedUpTo(_, _)
WorkedUpTo(u, k) ==
    IF k = 0 THEN 0
    ELSE WorkedUpTo(u, k - 1) +
         (IF /\ k \in DOMAIN time_entry
             /\ time_entry[k].user_id = u
             /\ time_entry[k].clock_out.k = "dt"
          THEN time_entry[k].clock_out.t - time_entry[k].clock_in.t
          ELSE 0)

\* Adjustment seconds of u over the ledger rows 1 .. k.
RECURSIVE AdjustedUpTo(_, _)
AdjustedUpTo(u, k) ==
    IF k = 0 THEN 0
    ELSE AdjustedUpTo(u, k - 1) +
         (IF balance_adjustment[k].user_id = u
          THEN balance_adjustment[k].adjustment_seconds ELSE 0)

\* Calendar day d carries a completed entry of u (by its clock-in date).
WorkedOn(u, d) ==
    \E id \in DOMAIN time_entry :
        /\ time_entry[id].user_id = u
        /\ time_entry[id].clock_out.k = "dt"
        /\ time_entry[id].clock_in.t >= d * 86400
        /\ time_entry[id].clock_in.t < (d + 1) * 86400

\* Day 0 is a Thursday: days 2 and 3 of each week are Saturday and Sunday.
IsSaturdayOrSunday(d) == d % 7 \in {2, 3}

\* Required seconds of u, one calendar day of the first two weeks at a time.
RECURSIVE RequiredUpTo(_, _)
RequiredUpTo(u, d) ==
    IF d < 0 THEN 0
    ELSE RequiredUpTo(u, d - 1) +
         (IF WorkedOn(u, d) /\ ~IsSaturdayOrSunday(d)
          THEN USERS[u].daily_hours * 360 ELSE 0)

QuotaUsers == {u \in DOMAIN USERS : USERS[u].daily_hours > 0}

\* The balance page of u was rendered by the last request.
BalancePageOf(u) ==
    /\ last.route = "time_tracking"
    /\ last.redirect = ""
    /\ last.user = u

\* C1 (as claimed): in every reachable state each user has at most one
\* TimeEntry whose clock-out is null.
C1_AtMostOneOpenEntry ==
    \A u \in DOMAIN USERS : Cardinality(open_entries(u)) <= 1

\* C2: a set-balance for any user with balance B and desired
\* total T appends one adjustment of T - B, and the balance recomputed right
\* after is exactly T.
C2_RoundTripAnyUser ==
    [][\A target \in TargetUserIds :
          SetBalanceDone(target) =>
            /\ balance_adjustment'[Len(balance_adjustment')].adjustment_seconds
                 = DesiredTotal - calculate_balance(target).seconds
            /\ calculate_balance(target)'.seconds = DesiredTotal]_vars

\* The round trip over whole seconds, for a user of the directory whose
\* quota is positive: one adjustment of T - B is appended (the delta, not T)
\* and the balance recomputed right after is T.  The source computes in
\* binary floating point, where (w - r) + (T - (w - r)) can differ from T in
\* the last place; that rounding is outside this model.
RoundTripWholeSeconds ==
    [][\A target \in TargetUserIds \cap QuotaUsers :
          SetBalanceDone(target) =>
            /\ balance_adjustment'[Len(balance_adjustment')].adjustment_seconds
                 = DesiredTotal - calculate_balance(target).seconds
            /\ ~calculate_balance(target)'.raised
            /\ calculate_balance(target)'.seconds = DesiredTotal]_vars

\* A set-balance for Esteban whose balance was not 0 before: the appended
\* delta differs from the desired total, and the balance now is the total.
RoundTripWholeSecondsReached ==
    /\ last.route = "admin_set_balance"
    /\ last.flash = "Balance para el usuario actualizado correctamente."
    /\ balance_adjustment[Len(balance_adjustment)].user_id = 2
    /\ balance_adjustment[Len(balance_adjustment)].adjustment_seconds # LastDesiredTotal
    /\ completed_entries(2) # {}
    /\ calculate_balance(2).seconds = LastDesiredTotal

\* C3: for a user with quota > 0 the balance that calculate_balance returns,
\* and that the balance page shows, is (worked seconds of the user's
\* completed entries) - (required seconds) + (sum of the user's adjustments,
\* 0 when there are none).
C3_BalanceSeconds ==
    \A u \in QuotaUsers :
        Parseable(u) =>
          LET expected == WorkedUpTo(u, next_entry_id - 1)
                            - required_seconds(completed_entries(u), USERS[u])
                            + AdjustedUpTo(u, Len(balance_adjustment))
          IN  /\ ~calculate_balance(u).raised
              /\ calculate_balance(u).seconds = expected
              /\ BalancePageOf(u) => last.body[2] = expected

\* The balance page of Esteban shows a negative balance made of completed
\* entries that worked some time and of a non-zero adjustment.
C3_Witness ==
    /\ BalancePageOf(2)
    /\ last.body[2] < 0
    /\ WorkedUpTo(2, next_entry_id - 1) > 0
    /\ AdjustedUpTo(2, Len(balance_adjustment)) # 0

\* C4: required seconds are quota-hours x 3600 for each distinct calendar
\* date from Monday to Friday that carries the clock-in of a completed entry
\* of the user: a date counts once however many entries fall on it, and a
\* Saturday or Sunday counts nothing, so what is worked then is surplus.
C4_RequiredSeconds ==
    \A u \in QuotaUsers :
        Parseable(u) =>
          /\ required_seconds(completed_entries(u), USERS[u]) = RequiredUpTo(u, 13)
          /\ BalancePageOf(u) =>
               last.body[2] = WorkedUpTo(u, next_entry_id - 1)
                                - RequiredUpTo(u, 13)
                                + AdjustedUpTo(u, Len(balance_adjustment))

\* The balance page of a user who completed one entry on a weekday and one
\* on the Saturday: one day is required and the Saturday is surplus.
C4_Witness ==
    /\ \E u \in QuotaUsers :
         /\ BalancePageOf(u)
         /\ WorkedOn(u, 2)
         /\ WorkedOn(u, 0) \/ WorkedOn(u, 1)
         /\ Cardinality(completed_entries(u)) = 2
         /\ RequiredUpTo(u, 13) = USERS[u].daily_hours * 360

\* C5: for the user whose quota is 0, calculate_balance returns "N/A" and 0
\* whatever entries and adjustments are stored for that user.
C5_QuotaZeroSentinel ==
    \A u \in DOMAIN USERS :
        USERS[u].daily_hours = 0 =>
            calculate_balance(u) = [raised |-> FALSE, str |-> NA, seconds |-> 0]

\* The Admin has a completed entry of 8 hours or more and a non-zero
\* adjustment, just recorded by a set-balance that computed the balance.
C5_Witness ==
    /\ last.route = "admin_set_balance"
    /\ last.flash = "Balance para el usuario actualizado correctamente."
    /\ WorkedUpTo(1, next_entry_id - 1) > 0
    /\ AdjustedUpTo(1, Len(balance_adjustment)) # 0

\* C6 (as claimed): a clock-out by a user who has an open entry sets the
\* clock-out of exactly one entry, that user's open one, leaves every other
\* entry as it was, and leaves the user with no open entry.
C6_ClockOutClosesTheOpenEntry ==
    [][\A u \in DOMAIN USERS :
          (last'.route = "clock_out" /\ last'.user = u /\ open_entries(u) # {}) =>
            /\ DOMAIN time_entry' = DOMAIN time_entry
            /\ open_entries(u)' = {}
            /\ \E e \in open_entries(u) :
                 /\ time_entry'[e].clock_out.k = "dt"
                 /\ \A id \in DOMAIN time_entry \ {e} :
                      time_entry'[id] = time_entry[id]]_vars

\* C7: a manual entry that is stored adds one row with both instants set,
\* owned by the requesting user, changes no other row, and leaves every
\* user's set of open entries as it was.
C7_ManualEntryKeepsStatus ==
    [][ManualEntryStored =>
          /\ DOMAIN time_entry' = DOMAIN time_entry \cup {next_entry_id}
          /\ next_entry_id \notin DOMAIN time_entry
          /\ time_entry'[next_entry_id].user_id = last'.user
          /\ time_entry'[next_entry_id].clock_in.k = "dt"
          /\ time_entry'[next_entry_id].clock_out.k = "dt"
          /\ \A id \in DOMAIN time_entry : time_entry'[id] = time_entry[id]
          /\ \A u \in DOMAIN USERS : open_entries(u)' = open_entries(u)]_vars

\* A manual entry was stored while its user is on the clock.
C7_Witness ==
    /\ last.route = "save_forgotten_clock"
    /\ last.flash = "Marcaje manual anadido correctamente."
    /\ open_entries(last.user) # {}
    /\ completed_entries(last.user) # {}

\* C8: a manual entry whose clock-out is not after its clock-in is refused
\* and the TimeEntry table is afterwards what it was: the refusal changes
\* nothing, and whatever a manual entry stores has clock-out after clock-in.
C8_ManualEntryOrder ==
    [][last'.route = "save_forgotten_clock" =>
          /\ last'.flash = "La hora de salida debe ser posterior a la de entrada."
               => (time_entry' = time_entry /\ next_entry_id' = next_entry_id)
          /\ \A id \in DOMAIN time_entry' \ DOMAIN time_entry :
               time_entry'[id].clock_out.t > time_entry'[id].clock_in.t]_vars

\* A manual entry was refused for its order, with rows already stored.
C8_Witness ==
    /\ last.route = "save_forgotten_clock"
    /\ last.flash = "La hora de salida debe ser posterior a la de entrada."
    /\ last.redirect = "forgot_clock"
    /\ DOMAIN time_entry # {}

\* C9 (as claimed): a date-time value that cannot be parsed is rejected and
\* the stored entries stay exactly what they were: no request makes a
\* stored clock-in or clock-out an unparseable text.
C9_UnparseableLeavesStore ==
    [][\A id \in DOMAIN time_entry' :
          (time_entry'[id].clock_in.k = "bad" \/ time_entry'[id].clock_out.k = "bad")
            => (id \in DOMAIN time_entry /\ time_entry'[id] = time_entry[id])]_vars

\* C10: a set-balance request of the Admin whose reason is missing or empty
\* is answered with the reason message whatever its balance string is (the
\* string is neither parsed nor the balance computed), and writes no
\* BalanceAdjustment.
C10_ReasonRequiredFirst ==
    [][(/\ last'.route = "admin_set_balance"
        /\ Len(last'.form) = 2
        /\ (~last'.form[1].present \/ last'.form[1].text = "")) =>
          /\ last'.flash = "Se requiere un motivo para el ajuste de balance."
          /\ last'.redirect = "admin_view"
          /\ balance_adjustment' = balance_adjustment]_vars

\* A request with no reason and a balance string that does not parse was
\* answered with the reason message.
C10_Witness ==
    /\ last.route = "admin_set_balance"
    /\ Len(last.form) = 2
    /\ ~last.form[1].present
    /\ last.form[2].present
    /\ ~parse_balance_string(last.form[2].text).ok
    /\ last.flash = "Se requiere un motivo para el ajuste de balance."

\* ---- the balance-string format, stated without the parser
\* The text after an optional leading sign.
Unsigned(s) == IF Len(s) >= 1 /\ s[1] \in {"+", "-"} THEN Tail(s) ELSE s

\* The whole text is: optional '+' or '-', digits, a colon, digits.
WellFormed(s) ==
    LET b == Unsigned(s) IN
    \E k \in 2 .. (Len(b) - 1) :
        /\ b[k] = ":"
        /\ \A i \in (1 .. Len(b)) \ {k} : b[i] \in Digit

\* The number a run of digits denotes, by place value.
RECURSIVE PlaceValue(_, _)
PlaceValue(ds, i) ==
    IF i > Len(ds) THEN 0
    ELSE DigitVal(ds[i]) * (10 ^ (Len(ds) - i)) + PlaceValue(ds, i + 1)

\* Hours and minutes of a well-formed text, and the seconds they denote.
ColonOf(b) == CHOOSE k \in 1 .. Len(b) : b[k] = ":"
HoursOf(s) == PlaceValue(SubSeq(Unsigned(s), 1, ColonOf(Unsigned(s)) - 1), 1)
MinutesOf(s) ==
    PlaceValue(SubSeq(Unsigned(s), ColonOf(Unsigned(s)) + 1, Len(Unsigned(s))), 1)
SignedSeconds(s) ==
    IF s[1] = "-" THEN 0 - (HoursOf(s) * 3600 + MinutesOf(s) * 60)
    ELSE HoursOf(s) * 3600 + MinutesOf(s) * 60

\* The Admin's set-balance request just answered carried a reason.
SetBalanceWithReason ==
    /\ last'.route = "admin_set_balance"
    /\ Len(last'.form) = 2
    /\ last'.form[1].present /\ last'.form[1].text # ""

\* C11: a set-balance request (with a reason) whose balance string is not of
\* the format is answered with the format message and leaves the
\* BalanceAdjustment table as it was.
C11_InvalidBalanceStringRejected ==
    [][(/\ SetBalanceWithReason
        /\ last'.form[2].present
        /\ ~WellFormed(last'.form[2].text)) =>
          /\ last'.flash = "Formato de balance invalido. Use +HH:MM o -HH:MM."
          /\ balance_adjustment' = balance_adjustment]_vars

\* C12: parse_balance_string accepts a text exactly when the whole text is an
\* optional '+' or '-', one or more digits, a colon, and one or more digits;
\* every other text is rejected.
C12_AcceptsExactlyTheFormat ==
    last.route = "parse_balance_string" =>
        (last.body[1] <=> WellFormed(last.form[1]))

\* C13: for a text of the format with hours H and minutes M the parser
\* returns H*3600 + M*60, negated as a whole when the sign is '-'; padding
\* with zeros is not needed: "+02:30" gives 9000, "-01:15" gives -4500 and
\* "2:5" gives 7500.
C13_SignedTotalSeconds ==
    last.route = "parse_balance_string" =>
        /\ WellFormed(last.form[1]) =>
             last.body = <<TRUE, SignedSeconds(last.form[1])>>
        /\ last.form[1] = <<"+", "0", "2", ":", "3", "0">> => last.body[2] = 9000
        /\ last.form[1] = <<"-", "0", "1", ":", "1", "5">> => last.body[2] = 0 - 4500
        /\ last.form[1] = <<"2", ":", "5">> => last.body[2] = 7500

\* The parser was called on a negative text with minutes: "-1:5".
C13_Witness ==
    /\ last.route = "parse_balance_string"
    /\ last.form[1] = <<"-", "1", ":", "5">>
    /\ last.body = <<TRUE, 0 - 3900>>

\* A display string without its sign.
DisplayBody(out) == IF out[1] = "-" THEN Tail(out) ELSE out

\* C14: the display string of a balance is 'HHh MMm' of its absolute value,
\* with whole hours and whole minutes (what remains of a minute is dropped),
\* each of two digits at least, and '-' in front exactly when the balance is
\* negative: 9000 gives "02h 30m" and -4500 gives "-01h 15m".
C14_DisplayString ==
    last.route = "seconds_to_str" =>
        LET seconds == last.form[1]
            out == last.body[1]
            b == DisplayBody(out)
            n == Len(b)
            hh == SubSeq(b, 1, n - 5)
            mm == SubSeq(b, n - 2, n - 1)
            shown == PlaceValue(hh, 1) * 3600 + PlaceValue(mm, 1) * 60
        IN  /\ (out[1] = "-") <=> (seconds < 0)
            /\ n >= 7
            /\ b[n - 4] = "h" /\ b[n - 3] = " " /\ b[n] = "m"
            /\ \A i \in 1 .. Len(hh) : hh[i] \in Digit
            /\ \A i \in 1 .. 2 : mm[i] \in Digit
            /\ Len(hh) > 2 => hh[1] # "0"
            /\ PlaceValue(mm, 1) < 60
            /\ shown <= abs(seconds) /\ abs(seconds) < shown + 60
            /\ seconds = 9000 => out = <<"0", "2", "h", " ", "3", "0", "m">>
            /\ seconds = 0 - 4500 =>
                 out = <<"-", "0", "1", "h", " ", "1", "5", "m">>

\* A negative balance of an hour and 59 seconds was formatted: "-01h 00m".
C14_Witness ==
    /\ last.route = "seconds_to_str"
    /\ last.form[1] = 0 - 3659
    /\ last.body[1] = <<"-", "0", "1", "h", " ", "0", "0", "m">>

\* C15: the BalanceAdjustment ledger is append-only: whatever the request,
\* every adjustment stored before it is stored after it, unchanged and in
\* its place; the ledger only grows.
C15_LedgerAppendOnly ==
    [][/\ Len(balance_adjustment') >= Len(balance_adjustment)
       /\ \A i \in 1 .. Len(balance_adjustment) :
            balance_adjustment'[i] = balance_adjustment[i]]_vars

\* Two adjustments of one user are stored, the second after the first, and
\* a time entry has been deleted since.
C15_Witness ==
    /\ Len(balance_adjustment) = 2
    /\ balance_adjustment[1].user_id = balance_adjustment[2].user_id
    /\ balance_adjustment[1].adjustment_seconds # balance_adjustment[2].adjustment_seconds
    /\ last.route = "admin_delete_entry"
    /\ last.flash = "Marcaje eliminado."

\* C16: every stored BalanceAdjustment has a non-empty reason and an author
\* who is the user that issued the request, and that user is the Admin.
C16_ReasonAndAuthor ==
    [][/\ \A i \in 1 .. Len(balance_adjustment') :
            /\ balance_adjustment'[i].reason # ""
            /\ load_user(balance_adjustment'[i].admin_user_id).username = "Admin"
       /\ \A i \in (Len(balance_adjustment) + 1) .. Len(balance_adjustment') :
            /\ balance_adjustment'[i].admin_user_id = last'.user
            /\ balance_adjustment'[i].reason = last'.form[1].text]_vars

\* The Admin has just recorded an adjustment for another user.
C16_Witness ==
    /\ last.route = "admin_set_balance"
    /\ Len(balance_adjustment) >= 1
    /\ balance_adjustment[Len(balance_adjustment)].user_id = 2
    /\ balance_adjustment[Len(balance_adjustment)].admin_user_id = 1
    /\ balance_adjustment[Len(balance_adjustment)].reason = "ajuste"

\* C17: in every reachable state a TimeEntry whose clock-out is set has its
\* clock-out at or after its clock-in.
C17_ClockOutNotBeforeClockIn ==
    \A id \in DOMAIN time_entry :
        (time_entry[id].clock_in.k = "dt" /\ time_entry[id].clock_out.k = "dt")
            => time_entry[id].clock_out.t >= time_entry[id].clock_in.t

\* C18: the lifecycle of a TimeEntry: rows appear only by clock-in or manual
\* entry, disappear only by admin delete, and a row that stays changes only
\* by clock-out or admin edit, the change being that its null clock-out is
\* set; a clock-out that is set is never null afterwards.
C18_Lifecycle ==
    [][/\ DOMAIN time_entry' \ DOMAIN time_entry # {}
            => last'.route \in {"clock_in", "save_forgotten_clock"}
       /\ DOMAIN time_entry \ DOMAIN time_entry' # {}
            => last'.route = "admin_delete_entry"
       /\ \A id \in DOMAIN time_entry \cap DOMAIN time_entry' :
            /\ time_entry[id].clock_out.k # "null"
                 => time_entry'[id].clock_out.k # "null"
            /\ time_entry'[id] # time_entry[id] =>
                 /\ last'.route \in {"clock_out", "admin_edit_entry"}
                 /\ time_entry'[id].clock_in = time_entry[id].clock_in
                 /\ time_entry[id].clock_out.k = "null"
                 /\ time_entry'[id].clock_out.k # "null"]_vars

\* ---- roles, stated on the user directory
AdminRoutes ==
    {"admin_edit_entry", "admin_delete_entry", "admin_set_balance",
     "letter_generator", "generate_doc"}

InventoryRoutes ==
    {"add_inventory_item", "edit_inventory_item", "delete_inventory_item",
     "export_inventory"}

\* The request just answered was a privileged one from a logged-in user who
\* lacks the role it needs.
LacksRole ==
    /\ last'.user \in DOMAIN USERS
    /\ \/ /\ last'.route \in AdminRoutes
          /\ USERS[last'.user].username # "Admin"
       \/ /\ last'.route = "save_forgotten_clock"
          /\ USERS[last'.user].username \notin {"Esteban", "Hernan"}
       \/ /\ last'.route \in InventoryRoutes
          /\ USERS[last'.user].username \notin {"Admin", "Jervaice"}

\* C19: a privileged action attempted by a user without the required role is
\* redirected or denied (no page, no file) and leaves the TimeEntry table,
\* the BalanceAdjustment ledger and the inventory as they were.
C19_RoleGate ==
    [][LacksRole =>
          /\ last'.redirect \in {"dashboard", "time_tracking", "403"}
          /\ last'.body = <<>>
          /\ time_entry' = time_entry /\ next_entry_id' = next_entry_id
          /\ balance_adjustment' = balance_adjustment
          /\ inventory' = inventory /\ next_item_id' = next_item_id]_vars

\* Jervaice has just been turned away from deleting a time entry, with an
\* entry, an adjustment and an inventory item stored.
C19_Witness ==
    /\ last.route = "admin_delete_entry"
    /\ last.user = 4
    /\ last.redirect = "dashboard"
    /\ DOMAIN time_entry # {}
    /\ Len(balance_adjustment) = 1
    /\ DOMAIN inventory # {}

\* ---- the exported sheet
\* The rows of the sheet after its first are one row per item with an id in
\* ids, each item once, and their names are in order.
SheetHolds(sheet, ids) ==
    /\ Len(sheet) = Cardinality(ids) + 1
    /\ \E seq \in [1 .. Cardinality(ids) -> ids] :
         /\ \A i, j \in 1 .. Cardinality(ids) : i # j => seq[i] # seq[j]
         /\ \A i \in 1 .. Cardinality(ids) :
              sheet[i + 1] = <<inventory[seq[i]].name, inventory[seq[i]].brand,
                               inventory[seq[i]].color, inventory[seq[i]].quantity,
                               inventory[seq[i]].status, inventory[seq[i]].location>>
    /\ \A i \in 2 .. (Len(sheet) - 1) :
         NameRank(sheet[i][1]) <= NameRank(sheet[i + 1][1])

\* The ids among the pieces of a selection.
IdsNamed(pieces) ==
    {id \in ItemIds : \E i \in 1 .. Len(pieces) : pieces[i] = [k |-> "id", v |-> id]}

\* An export request of a user with the inventory privilege was answered.
Exported(export_type) ==
    /\ last.route = "export_inventory"
    /\ last.user \in DOMAIN USERS
    /\ USERS[last.user].username \in {"Admin", "Jervaice"}
    /\ Len(last.form) >= 1
    /\ last.form[1] = export_type

\* C20: an export is the header row Activo, Marca, Color, Cantidad, Estado,
\* Ubicacion followed by exactly one row per exported item, ordered by name:
\* every item for an 'all' export, the items whose ids were selected for a
\* 'selected' export, and there is no file when the selection is empty.
C20_InventoryExport ==
    /\ Exported("all") =>
         /\ last.body[1] = <<"Activo", "Marca", "Color", "Cantidad", "Estado", "Ubicacion">>
         /\ SheetHolds(last.body, DOMAIN inventory)
    /\ (/\ Exported("selected")
        /\ last.form[2] # <<[k |-> "empty", v |-> 0]>>
        /\ \A i \in 1 .. Len(last.form[2]) : last.form[2][i].k # "bad") =>
         /\ last.body[1] = <<"Activo", "Marca", "Color", "Cantidad", "Estado", "Ubicacion">>
         /\ SheetHolds(last.body, IdsNamed(last.form[2]) \cap DOMAIN inventory)
    /\ (Exported("selected") /\ last.form[2] = <<[k |-> "empty", v |-> 0]>>) =>
         /\ last.body = <<>>
         /\ last.flash = "No se seleccionaron activos para exportar."
         /\ last.redirect = "inventory_view"

\* Both items were selected, the one with the higher id first in the list
\* and first by name: the sheet has the header and the two rows by name.
C20_Witness ==
    /\ Exported("selected")
    /\ last.form[2] = <<[k |-> "id", v |-> 2], [k |-> "id", v |-> 1]>>
    /\ DOMAIN inventory = {1, 2}
    /\ inventory[1].name = "Casco" /\ inventory[2].name = "Botas de Hule"
    /\ Len(last.body) = 3
    /\ last.body[2][1] = "Botas de Hule" /\ last.body[3][1] = "Casco"

\* ---- frames of the employees' requests
\* Every user id a balance is computed for: the directory and an id outside it.
BalanceUsers == DOMAIN USERS \cup {5}

\* C21: a clock-in of a logged-in user adds exactly one TimeEntry, owned by
\* that user and with a null clock-out, changes no other row and no
\* adjustment, and leaves the balance computed for every user as it was.
C21_ClockInFrame ==
    [][(last'.route = "clock_in" /\ last'.user # Anon) =>
          /\ next_entry_id \notin DOMAIN time_entry
          /\ DOMAIN time_entry' = DOMAIN time_entry \cup {next_entry_id}
          /\ time_entry'[next_entry_id].user_id = last'.user
          /\ time_entry'[next_entry_id].clock_out = Null
          /\ \A id \in DOMAIN time_entry : time_entry'[id] = time_entry[id]
          /\ balance_adjustment' = balance_adjustment
          /\ \A u \in BalanceUsers : calculate_balance(u)' = calculate_balance(u)]_vars

\* Esteban has just clocked in while having a completed entry and a balance
\* that is not 0.
C21_Witness ==
    /\ last.route = "clock_in"
    /\ last.user = 2
    /\ open_entries(2) # {}
    /\ completed_entries(2) # {}
    /\ calculate_balance(2).seconds # 0

\* The requests an employee sends for their own time.
EmployeeRoutes == {"clock_in", "clock_out", "save_forgotten_clock"}

\* C24: a clock-in, clock-out or manual entry sent by a user U who is not
\* the Admin deletes no row, creates or changes only TimeEntry rows owned by
\* U (before and after), leaves the BalanceAdjustment ledger as it was, and
\* leaves the balance computed for every other user as it was.
C24_OwnRowsOnly ==
    [][\A U \in DOMAIN USERS :
          (/\ USERS[U].username # "Admin"
           /\ last'.user = U
           /\ last'.route \in EmployeeRoutes) =>
             /\ DOMAIN time_entry \subseteq DOMAIN time_entry'
             /\ \A id \in DOMAIN time_entry' \ DOMAIN time_entry :
                  time_entry'[id].user_id = U
             /\ \A id \in DOMAIN time_entry :
                  time_entry'[id] # time_entry[id] =>
                    time_entry[id].user_id = U /\ time_entry'[id].user_id = U
             /\ balance_adjustment' = balance_adjustment
             /\ \A v \in BalanceUsers \ {U} :
                  calculate_balance(v)' = calculate_balance(v)]_vars

\* Jervaice has just clocked out while Esteban is on the clock and has an
\* adjustment in the ledger.
C24_Witness ==
    /\ last.route = "clock_out"
    /\ last.user = 4
    /\ last.flash = "Salida marcada correctamente."
    /\ completed_entries(4) # {}
    /\ open_entries(2) # {}
    /\ Len(balance_adjustment) = 1
    /\ balance_adjustment[1].user_id = 2

\* What calculate_balance returns for a user it does not compute for.
NotApplicable == [raised |-> FALSE, str |-> NA, seconds |-> 0]

\* C25: admin_set_balance does not check its target.  For a user id whose
\* quota is 0 or that is not in the directory, calculate_balance reports 0,
\* the request succeeds and appends an adjustment of the whole desired total,
\* and the balance computed afterwards is still ("N/A", 0).
C25_TargetNotChecked ==
    [][\A target \in TargetUserIds \ QuotaUsers :
          SetBalanceDone(target) =>
            /\ calculate_balance(target) = NotApplicable
            /\ balance_adjustment'[Len(balance_adjustment')].adjustment_seconds
                 = DesiredTotal
            /\ calculate_balance(target)' = NotApplicable
            /\ calculate_balance(target)'.seconds # DesiredTotal]_vars

\* A set-balance to -01:15 for id 5, which is not in the directory, has been
\* answered with success: -4500 is in the ledger and the balance is N/A.
C25_Witness ==
    /\ last.route = "admin_set_balance"
    /\ last.flash = "Balance para el usuario actualizado correctamente."
    /\ balance_adjustment[Len(balance_adjustment)].user_id = 5
    /\ balance_adjustment[Len(balance_adjustment)].adjustment_seconds = 0 - 4500
    /\ calculate_balance(5) = NotApplicable

\* ---- the two variants of clock_out
\* A clock-out of a logged-in user u was answered by this variant.
ClockOutBy(u, v) ==
    /\ last'.route = "clock_out"
    /\ last'.user = u
    /\ variant = v

\* C26: what a clock-out does to the TimeEntry table is the same in the two
\* variants exactly when the user has at most one open entry.  Each step of
\* one variant is compared with what the update of the other variant would
\* have left from the same table at the same instant; from two or more open
\* entries flask_app.py leaves the user with an open entry and setup.py
\* leaves the user with none.
C26_ClockOutVariants ==
    [][\A u \in DOMAIN USERS :
          /\ ClockOutBy(u, "flask_app") =>
               /\ (time_entry' = close_all(time_entry, u, now'))
                    <=> (Cardinality(open_entries(u)) <= 1)
               /\ Cardinality(open_entries(u)) >= 2 =>
                    Cardinality(open_entries(u)') = Cardinality(open_entries(u)) - 1
          /\ ClockOutBy(u, "setup") =>
               /\ (\/ time_entry' \in close_first(time_entry, u, now')
                   \/ (open_entries(u) = {} /\ time_entry' = time_entry))
                    <=> (Cardinality(open_entries(u)) <= 1)
               /\ open_entries(u)' = {}]_vars

\* flask_app.py has answered a clock-out of Esteban, who had two open entries:
\* one is closed and the other is still open.
C26_Witness ==
    /\ variant = "flask_app"
    /\ last.route = "clock_out"
    /\ last.user = 2
    /\ last.flash = "Salida marcada correctamente."
    /\ Cardinality(open_entries(2)) = 1
    /\ Cardinality(completed_entries(2)) = 1

\* C29: a clock-out of a user who has no open entry leaves the TimeEntry
\* table as it was: no row is created and no completed entry has its
\* clock-out written again.
C29_ClockOutWithoutOpenEntry ==
    [][\A u \in DOMAIN USERS :
          (last'.route = "clock_out" /\ last'.user = u /\ open_entries(u) = {}) =>
            /\ time_entry' = time_entry
            /\ next_entry_id' = next_entry_id]_vars

\* setup.py has answered a clock-out of Esteban, who has a completed entry
\* and no open one, at a later instant than that entry's clock-out.
C29_Witness ==
    /\ variant = "setup"
    /\ last.route = "clock_out"
    /\ last.user = 2
    /\ open_entries(2) = {}
    /\ \E id \in completed_entries(2) :
         time_entry[id].clock_out.k = "dt" /\ time_entry[id].clock_out.t < now

\* ---- requests without a session
\* The routes behind @login_required.
LoginRequiredRoutes ==
    {"logout", "dashboard", "time_tracking", "clock_in", "clock_out",
     "forgot_clock", "save_forgotten_clock", "admin_view", "admin_edit_entry",
     "admin_delete_entry", "admin_set_balance", "letter_generator",
     "generate_doc", "inventory_view", "add_inventory_item",
     "edit_inventory_item", "delete_inventory_item", "export_inventory"}

\* C27: no request from a client without a session changes the TimeEntry
\* table or the BalanceAdjustment ledger: the routes behind the login
\* requirement send it to the login page and change nothing, and the one
\* write it can cause is the seeding of /init-db, which inserts the initial
\* inventory rows and only into an empty inventory table.
C27_AnonymousWritesNothing ==
    [][(last'.user = Anon /\ last'.route # "") =>
          /\ time_entry' = time_entry /\ next_entry_id' = next_entry_id
          /\ balance_adjustment' = balance_adjustment
          /\ last'.route \in LoginRequiredRoutes =>
               /\ last'.redirect = "login"
               /\ inventory' = inventory
          /\ inventory' # inventory =>
               /\ last'.route = "init_db_command"
               /\ DOMAIN inventory = {}
               /\ Cardinality(DOMAIN inventory') = Len(InitialInventory)
               /\ \A id \in DOMAIN inventory' :
                    \E i \in 1 .. Len(InitialInventory) :
                        inventory'[id] = InitialInventory[i]]_vars

\* A client without a session has just seeded the inventory, emptied before
\* by Jervaice, while a time entry and an adjustment are stored.
C27_Witness ==
    /\ last.route = "init_db_command"
    /\ last.user = Anon
    /\ last.body = <<"Base de datos inicializada y poblada.">>
    /\ DOMAIN inventory = {2}
    /\ DOMAIN time_entry # {}
    /\ Len(balance_adjustment) = 1

WorkedLessRequired(u) == WorkedUpTo(u, MaxEntries) - RequiredUpTo(u, 13)

\* The requests that add, change or delete time entries.
EntryRoutes ==
    {"clock_in", "clock_out", "save_forgotten_clock", "admin_edit_entry",
     "admin_delete_entry"}

\* C30: a set-balance target is not sticky.  A successful set-balance makes
\* the balance T by storing a delta; every later request that adds, edits or
\* deletes time entries leaves the ledger as it is (a delete removes and
\* compensates no adjustment) and moves the balance by the change it makes
\* to (worked seconds - required seconds) of the user's completed entries.
C30_TargetNotSticky ==
    [][\A u \in QuotaUsers :
          /\ SetBalanceDone(u) => calculate_balance(u)'.seconds = DesiredTotal
          /\ last'.route \in EntryRoutes => balance_adjustment' = balance_adjustment
          /\ (/\ last'.route \in EntryRoutes
              /\ time_entry' # time_entry
              /\ Parseable(u) /\ Parseable(u)') =>
                  balance_seconds(u)' =
                    balance_seconds(u)
                      + (WorkedLessRequired(u)' - WorkedLessRequired(u))]_vars

\* Esteban's balance was set to -01:15 while he had a completed entry, and
\* the entry has been deleted since: the adjustment is still in the ledger
\* and the balance is the adjustment alone, not -01:15.
C30_Witness ==
    /\ last.route = "admin_delete_entry"
    /\ last.flash = "Marcaje eliminado."
    /\ Len(balance_adjustment) = 1
    /\ balance_adjustment[1].user_id = 2
    /\ balance_adjustment[1].adjustment_seconds \notin {0, 0 - 4500}
    /\ completed_entries(2) = {}
    /\ calculate_balance(2).seconds = balance_adjustment[1].adjustment_seconds

\* ---- requests served at the same time
\* Request r, in progress before the step, has written and been answered.
Commits(r, kind) == requests[r].k = kind /\ requests'[r].k = "idle"

\* C22: a clock-in that has read the clock completes whatever open entries
\* its user has and whatever other request is in progress: it inserts its own
\* open entry and is answered with success, so two clock-ins of one user that
\* overlap leave two open entries.
C22_ConcurrentClockIns ==
    [][\A r \in Requests :
          Commits(r, "clock_in") =>
            \E u \in DOMAIN USERS :
            /\ u = requests[r].user
            /\ time_entry' = time_entry @@
                   (next_entry_id :> [user_id |-> u,
                                      clock_in |-> requests[r].row.clock_in,
                                      clock_out |-> Null])
            /\ open_entries(u)' = open_entries(u) \cup {next_entry_id}
            /\ last'.flash = "Entrada marcada correctamente."]_vars

\* Two open entries of Esteban, written by requests that overlapped: the row
\* written second carries the earlier reading of the clock, so its request
\* had begun before the other one began and wrote after the other one wrote.
C22_Witness ==
    /\ open_entries(2) = {1, 2}
    /\ time_entry[1].clock_in.t > time_entry[2].clock_in.t
    /\ last.route = "clock_in"
    /\ last.flash = "Entrada marcada correctamente."

\* The desired total of a set-balance request in progress.
TotalOf(req) == parse_balance_string(req.form[2].text).value

\* C23: set-balance reads the balance and appends the delta in two steps.
\* When a request for user u with target T2 writes right after another
\* request for u with target T1 was answered, both having read the same
\* balance B and B having been the balance until the first of them wrote
\* (so that the balance now is T1), its delta T2 - B is appended after the
\* delta T1 - B and the balance becomes T1 + T2 - B; that is T2 only when T1 = B, and T1 only when
\* T2 = B.
C23_StaleRead ==
    [][\A r \in Requests, u \in RaceTargets :
          LET n == Len(balance_adjustment)
              T1 == LastDesiredTotal
              d1 == balance_adjustment[n].adjustment_seconds
              T2 == TotalOf(requests[r])
              d2 == requests[r].row.adjustment_seconds
              B == T2 - d2
          IN  (/\ Commits(r, "set_balance")
               /\ requests[r].row.user_id = u
               /\ last.route = "admin_set_balance"
               /\ last.flash = "Balance para el usuario actualizado correctamente."
               /\ n >= 1
               /\ balance_adjustment[n].user_id = u
               /\ T1 - d1 = B
               /\ calculate_balance(u).seconds = T1) =>
                 /\ Len(balance_adjustment') = n + 1
                 /\ balance_adjustment'[n] = balance_adjustment[n]
                 /\ balance_adjustment'[n + 1].user_id = u
                 /\ balance_adjustment'[n + 1].adjustment_seconds = T2 - B
                 /\ calculate_balance(u)'.seconds = T1 + T2 - B
                 /\ (calculate_balance(u)'.seconds = T2) <=> (T1 = B)
                 /\ (calculate_balance(u)'.seconds = T1) <=> (T2 = B)]_vars

\* Two requests for Jervaice, whose balance was 5760 (1 h 36 min), with the
\* targets -01:15 and +02:30 have both written: the balance is
\* -4500 + 9000 - 5760 = -1260, neither target.
C23_Witness ==
    /\ last.route = "admin_set_balance"
    /\ Len(balance_adjustment) = 2
    /\ balance_adjustment[1].user_id = 4 /\ balance_adjustment[2].user_id = 4
    /\ balance_adjustment[1].adjustment_seconds # balance_adjustment[2].adjustment_seconds
    /\ {balance_adjustment[1].adjustment_seconds + 5760,
        balance_adjustment[2].adjustment_seconds + 5760} = {0 - 4500, 9000}
    /\ calculate_balance(4).seconds = 0 - 1260

====
